---- MODULE Spec2Model ----
(***************************************************************************)
(* The job assignment engine of cleanbear: Scheduler (src/scheduler.py),   *)
(* its working-state model (src/models.py) and the travel-time lookup it   *)
(* calls (src/kakao_api.py).                                               *)
(*                                                                         *)
(* A clock string ("09:00") is the sequence of its characters, so that     *)
(* split(':'), int() and the HH:MM formatting are computed as the code     *)
(* computes them.  A Job object is an element of the sequence jobs (the    *)
(* input list the caller handed to assign_jobs); an Assignment refers to   *)
(* its Job by position, as the Python object refers to it by reference, so *)
(* a later write to job.error_reason is seen through every Assignment.     *)
(*                                                                         *)
(* The reason strings of the source are Korean; TLA+ strings are ASCII, so *)
(* each is named by a definition whose comment gives the source line.      *)
(*                                                                         *)
(* Beside the scheduling run (Spec) the module holds the request-by-       *)
(* request travel lookup (SpecLookup), the stored roster of main.py and    *)
(* its lock (SpecRoster), ingestion by parse_json_input (SpecIngest),      *)
(* FallbackHandler (SpecFallback), runs on unparseable start times         *)
(* (SpecFit), flexible jobs under working hours that end at or before     *)
(* noon (SpecSlot), a pair of compared runs (SpecPair), a second pass over *)
(* the deferred jobs (SpecRetry), the same list run twice (SpecTwice),     *)
(* Scheduler.__init__ over snapshots (SpecSeed) and the CP2 engine of      *)
(* src/assign_engine.py (SpecEngine).                                      *)
(*                                                                         *)
(* A location is an opaque token: the scheduler hands job.address,         *)
(* technician.home_address and working_state.current_address to            *)
(* calculate_travel_time and reads nothing else of them.                   *)
(***************************************************************************)
EXTENDS Integers, Sequences, FiniteSets, TLC

VARIABLES
    system_rules,     \* Scheduler.system_rules
    technicians,      \* Scheduler.technicians (the roster, in order)
    working_states,   \* Scheduler.working_states: technician_id -> state
    jobs,             \* the Job objects of the input list processed so far
    assigned_jobs,    \* assign_jobs: assigned_jobs
    failed_jobs,      \* assign_jobs: failed_jobs
    deferred_jobs,    \* assign_jobs: deferred_jobs
    evaluated,        \* the (travel lookup, fit check) calls of the last job
    given,            \* the Job objects of the input list as they were passed
    reference,        \* the recorded run a second run is compared with
    phase,            \* "run", or "reference" / "replay" of a compared pair
    task,             \* the Task object handed to FallbackHandler.apply_fallbacks
    history,          \* what each call of apply_fallbacks returned, in order
    job_data,         \* a raw job record of the request given to parse_json_input
    lookup,           \* one call of calculate_travel_time (kakao_api.py) in progress
    roster,           \* main.py: the stored technician list, its flag, lock and threads
    technician_states,\* Scheduler.__init__: the technician_states argument
    engine            \* assign_engine.py: the AssignmentEngine and its run of works

vars == <<system_rules, technicians, working_states, jobs,
          assigned_jobs, failed_jobs, deferred_jobs, evaluated,
          given, reference, phase, task, history, job_data, lookup, roster,
          technician_states, engine>>

(***************************************************************************)
(* Bounds of the model.                                                    *)
(***************************************************************************)
MaxJobs == 3
MaxDate == 2

(***************************************************************************)
(* None, and the strings of the source.                                    *)
(***************************************************************************)
None == "None"                 \* Python None
NoneTime == <<"None">>         \* None where a clock string is expected
NoneDate == 0                  \* last_work_date = None (models.py:152)
Infinity == 1000000            \* float('inf') (scheduler.py:110)

\* scheduler.py:96, "no technician can handle the service"
REASON_NO_TECHNICIAN == "NO_CAPABLE_TECHNICIAN"
\* scheduler.py:133, "cannot be assigned in time"
REASON_CANNOT_FIT == "CANNOT_FIT_IN_TIME"
\* scheduler.py:185, "time format error"
REASON_TIME_FORMAT == "TIME_FORMAT_ERROR"
\* scheduler.py:212, "time conflict"
REASON_TIME_CONFLICT == "TIME_CONFLICT"
\* scheduler.py:225, "travel time short"
REASON_TRAVEL_SHORT == "TRAVEL_TIME_SHORT"
\* scheduler.py:265, "slot size exceeded"
REASON_SLOT_TOO_SMALL == "SLOT_TOO_SMALL"
\* scheduler.py:198 and 273
REASON_OVERTIME == "OVERTIME_NOT_ALLOWED"
\* scheduler.py:69
REASON_MAX_DAYS == "MAX_PREASSIGN_DAYS_EXCEEDED"
\* main.py:224
REASON_FIXED_TIME_MISSING == "FIXED_TIME_MISSING"

(***************************************************************************)
(* Clock strings.                                                          *)
(***************************************************************************)
DigitChars == <<"0", "1", "2", "3", "4", "5", "6", "7", "8", "9">>

IsDigit(c) == \E i \in 1..10 : DigitChars[i] = c

DigitVal(c) == (CHOOSE i \in 1..10 : DigitChars[i] = c) - 1

Truthy(s) == s # NoneTime /\ s # <<>>

RECURSIVE SplitAcc(_, _, _, _)
SplitAcc(s, i, cur, acc) ==
    IF i > Len(s) THEN Append(acc, cur)
    ELSE IF s[i] = ":" THEN SplitAcc(s, i + 1, <<>>, Append(acc, cur))
    ELSE SplitAcc(s, i + 1, Append(cur, s[i]), acc)

Split(s) == SplitAcc(s, 1, <<>>, <<>>)

IntOk(p) == Len(p) > 0 /\ \A i \in 1..Len(p) : IsDigit(p[i])

RECURSIVE IntVal(_)
IntVal(p) ==
    IF Len(p) = 0 THEN 0
    ELSE IntVal(SubSeq(p, 1, Len(p) - 1)) * 10 + DigitVal(p[Len(p)])

ParseClock(s) ==
    IF s = NoneTime THEN [ok |-> FALSE, minutes |-> 0]
    ELSE LET parts == Split(s)
         IN IF ~IntOk(parts[1]) THEN [ok |-> FALSE, minutes |-> 0]
            ELSE IF Len(parts) > 1 /\ ~IntOk(parts[2])
                 THEN [ok |-> FALSE, minutes |-> 0]
            ELSE [ok |-> TRUE,
                  minutes |-> IntVal(parts[1]) * 60
                              + (IF Len(parts) > 1 THEN IntVal(parts[2]) ELSE 0)]

RuleMinutes(s) ==
    LET parts == Split(s) IN IntVal(parts[1]) * 60 + IntVal(parts[2])

RECURSIVE Decimal(_)
Decimal(n) ==
    IF n < 10 THEN <<DigitChars[n + 1]>>
    ELSE Append(Decimal(n \div 10), DigitChars[(n % 10) + 1])

Pad2(n) == IF n < 10 THEN <<"0">> \o Decimal(n) ELSE Decimal(n)

MinutesToTime(minutes) == Pad2(minutes \div 60) \o <<":">> \o Pad2(minutes % 60)

(***************************************************************************)
(* models.py: Technician and TechnicianWorkingState.                       *)
(***************************************************************************)
CanHandleService(technician, service_type) ==
    service_type \in technician.service_types

DateKeys(ws) == {ws.assignments_by_date[i].date : i \in 1..Len(ws.assignments_by_date)}

GetAssignmentsForDate(ws, target_date) ==
    IF target_date \in DateKeys(ws)
    THEN (CHOOSE e \in {ws.assignments_by_date[i] : i \in 1..Len(ws.assignments_by_date)} :
              e.date = target_date).list
    ELSE <<>>

\* Mutant of AddAssignment: the list of the date is replaced by a list of
\* the new assignment alone.
AddAssignmentReplaces(ws, assignment, date_key) ==
    LET abd == IF date_key \in DateKeys(ws) THEN ws.assignments_by_date
               ELSE Append(ws.assignments_by_date, [date |-> date_key, list |-> <<>>])
    IN [ws EXCEPT !.assignments_by_date =
           [i \in 1..Len(abd) |->
               IF abd[i].date = date_key
               THEN [abd[i] EXCEPT !.list = <<assignment>>]
               ELSE abd[i]]]

AddAssignment(ws, assignment, date_key) ==
    LET abd == IF date_key \in DateKeys(ws) THEN ws.assignments_by_date
               ELSE Append(ws.assignments_by_date, [date |-> date_key, list |-> <<>>])
    IN [ws EXCEPT !.assignments_by_date =
           [i \in 1..Len(abd) |->
               IF abd[i].date = date_key
               THEN [abd[i] EXCEPT !.list = Append(@, assignment)]
               ELSE abd[i]]]

GetAssignedDaysCount(ws) == Len(ws.assignments_by_date)

LatestDate(ws) == CHOOSE d \in DateKeys(ws) : \A e \in DateKeys(ws) : e <= d

\* Mutant of CanAssignDate: the latest assigned date itself is accepted.
CanAssignDateInclusive(ws, target_date, max_preassign_days) ==
    IF Len(ws.assignments_by_date) < max_preassign_days THEN TRUE
    ELSE IF DateKeys(ws) # {} THEN target_date >= LatestDate(ws)
    ELSE TRUE

CanAssignDate(ws, target_date, max_preassign_days) ==
    IF Len(ws.assignments_by_date) < max_preassign_days THEN TRUE
    ELSE IF DateKeys(ws) # {} THEN target_date > LatestDate(ws)
    ELSE TRUE

(***************************************************************************)
(* kakao_api.py: the travel-time lookup.  The routing service is a fixed   *)
(* table of minutes between the addresses of the model; the route from H2  *)
(* to B is one the service cannot resolve, so that lookup returns the      *)
(* sentinel.                                                               *)
(***************************************************************************)
FailValue == 9999

RouteFound(origin_address, dest_address) ==
    ~(origin_address = "H2" /\ dest_address = "B")

RouteMinutes(origin_address, dest_address) ==
    IF origin_address = dest_address THEN 0
    ELSE IF origin_address = "H1" /\ dest_address = "A" THEN 20
    ELSE IF origin_address = "H2" /\ dest_address = "A" THEN 10
    ELSE 45

CalculateTravelTime(origin_address, dest_address) ==
    IF origin_address = "" THEN FailValue
    ELSE IF dest_address = "" THEN FailValue
    ELSE IF RouteFound(origin_address, dest_address)
         THEN RouteMinutes(origin_address, dest_address)
    ELSE FailValue

(***************************************************************************)
(* scheduler.py: the fit checks.                                           *)
(***************************************************************************)
IsTimeFixed(job) == job.time_fixed = "True"

FitResult(fit, score, reason) == [fit |-> fit, score |-> score, reason |-> reason]

TaskEnd(task_start_minutes, job) ==
    task_start_minutes + job.duration_min + system_rules.default_buffer_min

\* Mutant of Overlaps: only a job that starts inside the existing interval
\* conflicts.
OverlapsStartInside(task_start, task_end, existing_start, existing_end) ==
    task_start > existing_start /\ task_start < existing_end

\* Mutant of Overlaps: the intervals are closed, touching ends conflict.
OverlapsClosed(task_start, task_end, existing_start, existing_end) ==
    ~(task_end < existing_start \/ task_start > existing_end)

Overlaps(task_start, task_end, existing_start, existing_end) ==
    ~(task_end <= existing_start \/ task_start >= existing_end)

\* Mutant of TravelTooShort: only an assignment that ends before the task
\* starts is tested.
TravelTooShortOnlyEarlier(existing_end, travel_time, task_start) ==
    existing_end <= task_start /\ existing_end + travel_time > task_start

TravelTooShort(existing_end, travel_time, task_start) ==
    existing_end + travel_time > task_start

\* Mutant of ScanExisting: the existing assignments are not scanned.
ScanExistingNoScan(existing_assignments, i, task_start, task_end, travel_time) ==
    FitResult(TRUE, travel_time, None)

RECURSIVE ScanExisting(_, _, _, _, _)
ScanExisting(existing_assignments, i, task_start, task_end, travel_time) ==
    IF i > Len(existing_assignments) THEN FitResult(TRUE, travel_time, None)
    ELSE LET existing == existing_assignments[i]
             ejob == jobs[existing.job]
             isFixed == IsTimeFixed(ejob) /\ Truthy(ejob.fixed_start_time)
             es == ParseClock(ejob.fixed_start_time)
             ee == ParseClock(existing.estimated_end_time)
             next == ScanExisting(existing_assignments, i + 1,
                                  task_start, task_end, travel_time)
         IN IF isFixed /\ ~es.ok THEN next
            ELSE IF isFixed /\ Overlaps(task_start, task_end, es.minutes,
                                        TaskEnd(es.minutes, ejob))
                 THEN FitResult(FALSE, Infinity, REASON_TIME_CONFLICT)
            ELSE IF Truthy(existing.estimated_end_time) /\ ee.ok
                    /\ TravelTooShort(ee.minutes, travel_time, task_start)
                 THEN FitResult(FALSE, Infinity, REASON_TRAVEL_SHORT)
            ELSE next

\* Mutant of OvertimeRejected: the technician's flag is not consulted.
OvertimeRejectedForAll(end_minutes, work_end_minutes, technician) ==
    end_minutes > work_end_minutes

\* Mutant of OvertimeRejected: an end exactly at work_end counts as overtime.
OvertimeRejectedAtWorkEnd(end_minutes, work_end_minutes, technician) ==
    end_minutes >= work_end_minutes /\ ~technician.overtime_allowed

OvertimeRejected(end_minutes, work_end_minutes, technician) ==
    end_minutes > work_end_minutes /\ ~technician.overtime_allowed

\* Mutant of CheckFixedTimeFit: the parse of fixed_start_time is not
\* guarded; a start that does not parse counts as minute 0.
CheckFixedTimeFitUnguarded(technician, job, travel_time, existing_assignments) ==
    LET ts == ParseClock(job.fixed_start_time)
        work_end_minutes == RuleMinutes(system_rules.work_end)
        task_end_minutes == TaskEnd(ts.minutes, job)
    IN IF OvertimeRejected(task_end_minutes, work_end_minutes, technician)
       THEN FitResult(FALSE, Infinity, REASON_OVERTIME)
       ELSE ScanExisting(existing_assignments, 1, ts.minutes,
                         task_end_minutes, travel_time)

CheckFixedTimeFit(technician, job, travel_time, existing_assignments) ==
    LET ts == ParseClock(job.fixed_start_time)
        work_end_minutes == RuleMinutes(system_rules.work_end)
        task_end_minutes == TaskEnd(ts.minutes, job)
    IN IF ~ts.ok THEN FitResult(FALSE, Infinity, REASON_TIME_FORMAT)
       ELSE IF OvertimeRejected(task_end_minutes, work_end_minutes, technician)
            THEN FitResult(FALSE, Infinity, REASON_OVERTIME)
       ELSE ScanExisting(existing_assignments, 1, ts.minutes,
                         task_end_minutes, travel_time)

\* Mutant of SlotDuration: the afternoon slot is measured from work_start.
SlotDurationWholeDay(slot_type, work_start_minutes, work_end_minutes) ==
    IF slot_type = "MORNING" THEN (12 * 60) - work_start_minutes
    ELSE work_end_minutes - work_start_minutes

SlotDuration(slot_type, work_start_minutes, work_end_minutes) ==
    IF slot_type = "MORNING" THEN (12 * 60) - work_start_minutes
    ELSE IF slot_type = "AFTERNOON" THEN work_end_minutes - (12 * 60)
    ELSE work_end_minutes - work_start_minutes

MaxEndMinutes(slot_type, work_end_minutes) ==
    IF slot_type = "MORNING" THEN 12 * 60 ELSE work_end_minutes

\* Mutant of CheckUndefinedTimeFit: the slot is shared with the assignments
\* the technician already holds on the date.
CheckUndefinedTimeFitPacked(job, travel_time, existing_assignments, technician) ==
    LET total_duration == job.duration_min + system_rules.default_buffer_min
        slot_type == IF job.slot_type = None \/ job.slot_type = ""
                     THEN "ALLDAY" ELSE job.slot_type
        work_start_minutes == RuleMinutes(system_rules.work_start)
        work_end_minutes == RuleMinutes(system_rules.work_end)
        slot_duration == SlotDuration(slot_type, work_start_minutes, work_end_minutes)
    IN IF total_duration * (Len(existing_assignments) + 1) > slot_duration
       THEN FitResult(FALSE, Infinity, REASON_SLOT_TOO_SMALL)
       ELSE FitResult(TRUE, travel_time, None)

CheckUndefinedTimeFit(job, travel_time, existing_assignments, technician) ==
    LET total_duration == job.duration_min + system_rules.default_buffer_min
        slot_type == IF job.slot_type = None \/ job.slot_type = ""
                     THEN "ALLDAY" ELSE job.slot_type
        work_start_minutes == RuleMinutes(system_rules.work_start)
        work_end_minutes == RuleMinutes(system_rules.work_end)
        slot_duration == SlotDuration(slot_type, work_start_minutes, work_end_minutes)
        max_end_minutes == MaxEndMinutes(slot_type, work_end_minutes)
        latest_possible_start == max_end_minutes - total_duration
        latest_possible_end == latest_possible_start + total_duration
    IN IF total_duration > slot_duration
       THEN FitResult(FALSE, Infinity, REASON_SLOT_TOO_SMALL)
       ELSE IF OvertimeRejected(latest_possible_end, work_end_minutes, technician)
            THEN FitResult(FALSE, Infinity, REASON_OVERTIME)
       ELSE FitResult(TRUE, travel_time, None)

Technician(technician_id) ==
    CHOOSE t \in {technicians[i] : i \in 1..Len(technicians)} :
        t.technician_id = technician_id

CheckTimeFit(ws, job, travel_time) ==
    LET existing_assignments == GetAssignmentsForDate(ws, job.date)
    IN IF IsTimeFixed(job) /\ Truthy(job.fixed_start_time)
       THEN CheckFixedTimeFit(Technician(ws.technician_id), job, travel_time,
                              existing_assignments)
       ELSE CheckUndefinedTimeFit(job, travel_time, existing_assignments,
                                  Technician(ws.technician_id))

(***************************************************************************)
(* scheduler.py: building and committing an Assignment.                    *)
(***************************************************************************)
\* Mutant of CreateAssignment: the Assignment is built with the placeholder
\* technician of _create_failed_assignment.
CreateAssignmentPlaceholder(job, ws, travel_time) ==
    [job |-> job.job_id,
     technician_id |-> "FAILED",
     estimated_start_time |-> NoneTime,
     estimated_end_time |-> NoneTime,
     travel_time_minutes |-> travel_time,
     status |-> IF IsTimeFixed(job) /\ Truthy(job.fixed_start_time)
                THEN "assigned" ELSE "time_undefined",
     memo |-> ""]

\* Mutant of CreateAssignment: the end time leaves out default_buffer_min.
CreateAssignmentNoBuffer(job, ws, travel_time) ==
    LET ts == ParseClock(job.fixed_start_time)
        base == [job |-> job.job_id,
                 technician_id |-> ws.technician_id,
                 estimated_start_time |-> NoneTime,
                 estimated_end_time |-> NoneTime,
                 travel_time_minutes |-> travel_time,
                 status |-> "assigned",
                 memo |-> ""]
    IN IF IsTimeFixed(job) /\ Truthy(job.fixed_start_time)
       THEN [base EXCEPT !.estimated_start_time = job.fixed_start_time,
                         !.estimated_end_time =
                             IF ts.ok THEN MinutesToTime(ts.minutes + job.duration_min)
                             ELSE NoneTime]
       ELSE [base EXCEPT !.status = "time_undefined"]

CreateAssignment(job, ws, travel_time) ==
    LET ts == ParseClock(job.fixed_start_time)
        base == [job |-> job.job_id,
                 technician_id |-> ws.technician_id,
                 estimated_start_time |-> NoneTime,
                 estimated_end_time |-> NoneTime,
                 travel_time_minutes |-> travel_time,
                 status |-> "assigned",
                 memo |-> ""]
    IN IF IsTimeFixed(job) /\ Truthy(job.fixed_start_time)
       THEN [base EXCEPT !.estimated_start_time = job.fixed_start_time,
                         !.estimated_end_time =
                             IF ts.ok THEN MinutesToTime(TaskEnd(ts.minutes, job))
                             ELSE NoneTime]
       ELSE [base EXCEPT !.status = "time_undefined"]

\* The Assignment of _create_failed_assignment; the same call sets
\* job.error_reason = reason (FailedJob).
CreateFailedAssignment(job, reason) ==
    [job |-> job.job_id,
     technician_id |-> "FAILED",
     estimated_start_time |-> NoneTime,
     estimated_end_time |-> NoneTime,
     travel_time_minutes |-> 0,
     status |-> "failed",
     memo |-> reason]

FailedJob(job, reason) == [job EXCEPT !.error_reason = reason]

\* Mutant of UpdateWorkingState: last_work_end_time and last_work_date are
\* written for every assignment, whether or not it has an end time.
UpdateWorkingStateAlwaysStamps(ws, assignment, job) ==
    LET added == AddAssignment(ws, assignment, job.date)
    IN [added EXCEPT !.current_address = job.address,
                     !.last_work_end_time = assignment.estimated_end_time,
                     !.last_work_date = job.date]

\* Mutant of UpdateWorkingState: the technician stays where they were.
UpdateWorkingStateStays(ws, assignment, job) ==
    LET added == AddAssignment(ws, assignment, job.date)
    IN IF Truthy(assignment.estimated_end_time)
       THEN [added EXCEPT !.last_work_end_time = assignment.estimated_end_time,
                          !.last_work_date = job.date]
       ELSE added

UpdateWorkingState(ws, assignment, job) ==
    LET added == AddAssignment(ws, assignment, job.date)
        moved == [added EXCEPT !.current_address = job.address]
    IN IF Truthy(assignment.estimated_end_time)
       THEN [moved EXCEPT !.last_work_end_time = assignment.estimated_end_time,
                          !.last_work_date = job.date]
       ELSE moved

(***************************************************************************)
(* scheduler.py: _assign_single_job.                                       *)
(***************************************************************************)
RosterIds == [i \in 1..Len(technicians) |-> technicians[i].technician_id]

\* Mutant of AvailableStates: the capability filter is dropped.
AvailableStatesAll(job) == RosterIds

AvailableStates(job) ==
    SelectSeq(RosterIds, LAMBDA id : CanHandleService(Technician(id), job.service_type))

\* Mutant of AssignableStates: once the cap is reached only earlier dates
\* are accepted.
AssignableStatesEarlier(job) ==
    SelectSeq(AvailableStates(job),
              LAMBDA id :
                  \/ Len(working_states[id].assignments_by_date)
                         < system_rules.max_preassign_days
                  \/ job.date < LatestDate(working_states[id]))

AssignableStates(job) ==
    SelectSeq(AvailableStates(job),
              LAMBDA id : CanAssignDate(working_states[id], job.date,
                                        system_rules.max_preassign_days))

\* Mutant of IsBetter: the first fitting candidate is kept.
IsBetterFirstFit(fit, score, best_score) == fit /\ best_score = Infinity

\* Mutant of IsBetter: a candidate whose lookup failed is never the best.
IsBetterBelowSentinel(fit, score, best_score) ==
    fit /\ score < best_score /\ score < FailValue

\* Mutant of IsBetter: a candidate that equals the best score replaces it.
IsBetterLastTie(fit, score, best_score) == fit /\ score <= best_score

IsBetter(fit, score, best_score) == fit /\ score < best_score

\* Mutant of Consider: a later rejection overwrites the recorded reason.
ConsiderLastWins(acc, technician_id, travel_time, r) ==
    LET call == [technician_id |-> technician_id, travel_time |-> travel_time,
                 fit |-> r.fit, score |-> r.score, reason |-> r.reason]
        seen == [acc EXCEPT !.evaluated = Append(@, call)]
    IN IF IsBetter(r.fit, r.score, acc.best_score)
       THEN [seen EXCEPT !.best = technician_id, !.best_score = r.score,
                         !.best_travel_time = travel_time]
       ELSE IF r.reason # None
            THEN [seen EXCEPT !.error_reason = r.reason]
       ELSE seen

\* The body of the candidate loop for one candidate: acc holds the best
\* candidate so far, the first rejection reason (job.error_reason) and the
\* calls made.
Consider(acc, technician_id, travel_time, r) ==
    LET call == [technician_id |-> technician_id, travel_time |-> travel_time,
                 fit |-> r.fit, score |-> r.score, reason |-> r.reason]
        seen == [acc EXCEPT !.evaluated = Append(@, call)]
    IN IF IsBetter(r.fit, r.score, acc.best_score)
       THEN [seen EXCEPT !.best = technician_id, !.best_score = r.score,
                         !.best_travel_time = travel_time]
       ELSE IF r.reason # None /\ acc.error_reason = None
            THEN [seen EXCEPT !.error_reason = r.reason]
       ELSE seen

Evaluate(acc, ws, job, travel_time) ==
    Consider(acc, ws.technician_id, travel_time, CheckTimeFit(ws, job, travel_time))

RECURSIVE EvalCandidates(_, _, _, _)
EvalCandidates(cands, i, job, acc) ==
    IF i > Len(cands) THEN acc
    ELSE EvalCandidates(cands, i + 1, job,
             Evaluate(acc, working_states[cands[i]], job,
                      CalculateTravelTime(working_states[cands[i]].current_address,
                                          job.address)))

NoCandidate ==
    [best |-> None, best_score |-> Infinity, best_travel_time |-> 0,
     error_reason |-> None, evaluated |-> <<>>]

Outcome(result, assignment, job, states, calls) ==
    [result |-> result, assignment |-> assignment, job |-> job,
     states |-> states, evaluated |-> calls]

\* Steps 4 and 5: build the Assignment and commit it.
Commit(job, technician_id, assignment, calls) ==
    Outcome("assignment", assignment, job,
            [working_states EXCEPT
                ![technician_id] = UpdateWorkingState(@, assignment, job)],
            calls)

\* After the candidate loop: failed with the recorded reason, or assigned.
\* marked is the Job object with the error_reason the loop wrote to it.
Decide(marked, acc) ==
    IF acc.best = None
    THEN Outcome("assignment",
                 CreateFailedAssignment(marked,
                     IF marked.error_reason # None THEN marked.error_reason
                     ELSE REASON_CANNOT_FIT),
                 FailedJob(marked,
                     IF marked.error_reason # None THEN marked.error_reason
                     ELSE REASON_CANNOT_FIT),
                 working_states, acc.evaluated)
    ELSE Commit(marked, acc.best,
                CreateAssignment(marked, working_states[acc.best],
                                 acc.best_travel_time),
                acc.evaluated)

Loop(job, acc) == Decide([job EXCEPT !.error_reason = acc.error_reason], acc)

\* result: "None" (deferred), or "assignment" with the Assignment returned;
\* job: the Job object as the call leaves it; states: working_states after.
AssignSingleJob(job) ==
    IF Len(AvailableStates(job)) = 0
    THEN Outcome("assignment", CreateFailedAssignment(job, REASON_NO_TECHNICIAN),
                 FailedJob(job, REASON_NO_TECHNICIAN), working_states, <<>>)
    ELSE IF Len(AssignableStates(job)) = 0
    THEN Outcome("None", CreateFailedAssignment(job, None), job,
                 working_states, <<>>)
    ELSE Loop(job, EvalCandidates(AssignableStates(job), 1, job, NoCandidate))

(***************************************************************************)
(* The inputs of the model.                                                *)
(***************************************************************************)
Clock0900 == <<"0", "9", ":", "0", "0">>
Clock1130 == <<"1", "1", ":", "3", "0">>
Clock1200 == <<"1", "2", ":", "0", "0">>
Clock1800 == <<"1", "8", ":", "0", "0">>

Dates == 1..MaxDate
Services == {"aircon", "movein"}
Addresses == {"A", "B"}

\* The time fields of a job: fixed at 09:00 or 11:30 (the second ends after
\* work_end when it lasts 400 minutes), or flexible in one of the slots.
TimeShapes ==
    {[time_fixed |-> "True", fixed_start_time |-> Clock0900,
      slot_type |-> None, duration_min |-> 120],
     [time_fixed |-> "True", fixed_start_time |-> Clock1130,
      slot_type |-> None, duration_min |-> 120],
     [time_fixed |-> "True", fixed_start_time |-> Clock1130,
      slot_type |-> None, duration_min |-> 400],
     [time_fixed |-> None, fixed_start_time |-> NoneTime,
      slot_type |-> None, duration_min |-> 400],
     [time_fixed |-> None, fixed_start_time |-> NoneTime,
      slot_type |-> "MORNING", duration_min |-> 120],
     [time_fixed |-> None, fixed_start_time |-> NoneTime,
      slot_type |-> "AFTERNOON", duration_min |-> 400]}

NewJob(job_id, service_type, address, date, shape, error_reason) ==
    [job_id |-> job_id, service_type |-> service_type, address |-> address,
     date |-> date, duration_min |-> shape.duration_min,
     time_fixed |-> shape.time_fixed,
     fixed_start_time |-> shape.fixed_start_time, slot_type |-> shape.slot_type,
     fallback_used |-> FALSE, fallback_details |-> <<>>,
     error_reason |-> error_reason]

\* The jobs the caller may pass next: any service, address, date and time
\* shape, or a job that parse_json_input (main.py) already marked
\* FIXED_TIME_MISSING.
JobInputs(job_id) ==
    {NewJob(job_id, sv, ad, d, sh, None) :
        sv \in Services, ad \in Addresses, d \in Dates, sh \in TimeShapes}
    \cup {NewJob(job_id, sv, "A", 1,
                 [time_fixed |-> "True", fixed_start_time |-> NoneTime,
                  slot_type |-> None, duration_min |-> 120],
                 REASON_FIXED_TIME_MISSING) : sv \in Services}

Rosters ==
    {<<[technician_id |-> "T1", home_address |-> "H1",
        service_types |-> {"aircon"}, overtime_allowed |-> FALSE],
       [technician_id |-> "T2", home_address |-> "H2",
        service_types |-> s2, overtime_allowed |-> TRUE]>> :
     s2 \in {{"aircon"}, {"movein"}}}

TechnicianStateInputs == {<<>>}

RuleInputs ==
    [work_start : {Clock0900}, work_end : {Clock1800},
     max_preassign_days : {1, 2}, default_buffer_min : {30}]

(***************************************************************************)
(* Scheduler.__init__ and assign_jobs.                                     *)
(***************************************************************************)
\* Mutant of SeedState: the snapshot's last_address is not used.
SeedStateAtHome(technician, states) ==
    [technician_id |-> technician.technician_id,
     current_address |-> technician.home_address,
     assignments_by_date |-> <<>>,
     last_work_end_time |-> NoneTime,
     last_work_date |-> NoneDate]

SeedState(technician, states) ==
    LET mine == {i \in 1..Len(states) :
                    states[i].technician_id = technician.technician_id}
        \* state_dict keeps the last snapshot given for an id
        state == states[CHOOSE i \in mine : \A k \in mine : k <= i]
    IN [technician_id |-> technician.technician_id,
        current_address |-> IF mine # {} /\ state.last_address # None
                                           /\ state.last_address # ""
                            THEN state.last_address
                            ELSE technician.home_address,
        assignments_by_date |-> <<>>,
        last_work_end_time |-> IF mine # {} THEN state.last_end_time ELSE NoneTime,
        last_work_date |-> NoneDate]

Init ==
    /\ system_rules \in RuleInputs
    /\ technicians \in Rosters
    /\ technician_states \in TechnicianStateInputs
    /\ working_states =
          [id \in {technicians[i].technician_id : i \in 1..Len(technicians)} |->
              SeedState(Technician(id), technician_states)]
    /\ engine = None
    /\ jobs = <<>>
    /\ assigned_jobs = <<>>
    /\ failed_jobs = <<>>
    /\ deferred_jobs = <<>>
    /\ evaluated = <<>>
    /\ given = <<>>
    /\ reference = <<>>
    /\ phase = "run"
    /\ task = None
    /\ history = <<>>
    /\ job_data = None
    /\ lookup = None
    /\ roster = None

\* Mutant of Classify: a None result is appended to failed_jobs.
ClassifyNoneAsFailed(job, out) ==
    IF out.result = "None"
    THEN /\ jobs' = Append(jobs, FailedJob(out.job, REASON_MAX_DAYS))
         /\ failed_jobs' = Append(failed_jobs,
                                  CreateFailedAssignment(out.job, REASON_MAX_DAYS))
         /\ evaluated' = out.evaluated
         /\ UNCHANGED <<assigned_jobs, deferred_jobs, working_states>>
    ELSE IF out.assignment.status = "failed"
    THEN /\ jobs' = Append(jobs, out.job)
         /\ failed_jobs' = Append(failed_jobs, out.assignment)
         /\ evaluated' = out.evaluated
         /\ UNCHANGED <<assigned_jobs, deferred_jobs, working_states>>
    ELSE /\ jobs' = Append(jobs, out.job)
         /\ assigned_jobs' = Append(assigned_jobs, out.assignment)
         /\ working_states' = out.states
         /\ evaluated' = out.evaluated
         /\ UNCHANGED <<failed_jobs, deferred_jobs>>

\* Mutant of Classify: an assigned job is put at the head of assigned_jobs.
ClassifyPrepends(job, out) ==
    IF out.result = "None"
    THEN /\ jobs' = Append(jobs, FailedJob(out.job, REASON_MAX_DAYS))
         /\ deferred_jobs' = Append(deferred_jobs,
                                    CreateFailedAssignment(out.job, REASON_MAX_DAYS))
         /\ evaluated' = out.evaluated
         /\ UNCHANGED <<assigned_jobs, failed_jobs, working_states>>
    ELSE IF out.assignment.status = "failed"
    THEN /\ jobs' = Append(jobs, out.job)
         /\ failed_jobs' = Append(failed_jobs, out.assignment)
         /\ evaluated' = out.evaluated
         /\ UNCHANGED <<assigned_jobs, deferred_jobs, working_states>>
    ELSE /\ jobs' = Append(jobs, out.job)
         /\ assigned_jobs' = <<out.assignment>> \o assigned_jobs
         /\ working_states' = out.states
         /\ evaluated' = out.evaluated
         /\ UNCHANGED <<failed_jobs, deferred_jobs>>

\* The branches of the for loop of assign_jobs on what _assign_single_job
\* returned (out).
Classify(job, out) ==
    IF out.result = "None"
    THEN /\ jobs' = Append(jobs, FailedJob(out.job, REASON_MAX_DAYS))
         /\ deferred_jobs' = Append(deferred_jobs,
                                    CreateFailedAssignment(out.job, REASON_MAX_DAYS))
         /\ evaluated' = out.evaluated
         /\ UNCHANGED <<assigned_jobs, failed_jobs, working_states>>
    ELSE IF out.assignment.status = "failed"
    THEN /\ jobs' = Append(jobs, out.job)
         /\ failed_jobs' = Append(failed_jobs, out.assignment)
         /\ evaluated' = out.evaluated
         /\ UNCHANGED <<assigned_jobs, deferred_jobs, working_states>>
    ELSE /\ jobs' = Append(jobs, out.job)
         /\ assigned_jobs' = Append(assigned_jobs, out.assignment)
         /\ working_states' = out.states
         /\ evaluated' = out.evaluated
         /\ UNCHANGED <<failed_jobs, deferred_jobs>>

\* Mutant of AssignJobsStep: a job that already carries an error_reason is
\* skipped without being appended to failed_jobs.
AssignJobsStepSkipsErrored(job) ==
    IF job.error_reason # None
    THEN /\ jobs' = Append(jobs, job)
         /\ evaluated' = <<>>
         /\ UNCHANGED <<assigned_jobs, failed_jobs, deferred_jobs, working_states>>
    ELSE Classify(job, AssignSingleJob(job))

\* Mutant of AssignJobsStep: the test of job.error_reason is missing, every
\* job goes to _assign_single_job.
AssignJobsStepNoSkip(job) == Classify(job, AssignSingleJob(job))

\* Mutant of AssignJobsStep: a job that carries an error_reason is appended
\* to failed_jobs without the continue, so _assign_single_job still runs on
\* it and may commit it to a technician.
AssignJobsStepNoContinue(job) ==
    IF job.error_reason # None
    THEN /\ jobs' = Append(jobs, FailedJob(job, job.error_reason))
         /\ failed_jobs' = Append(failed_jobs,
                                  CreateFailedAssignment(job, job.error_reason))
         /\ evaluated' = <<>>
         /\ working_states' =
                AssignSingleJob([job EXCEPT !.error_reason = None]).states
         /\ UNCHANGED <<assigned_jobs, deferred_jobs>>
    ELSE Classify(job, AssignSingleJob(job))

\* One pass of the for loop of assign_jobs, on the next job of the input list.
AssignJobsStep(job) ==
    IF job.error_reason # None
    THEN /\ jobs' = Append(jobs, FailedJob(job, job.error_reason))
         /\ failed_jobs' = Append(failed_jobs,
                                  CreateFailedAssignment(job, job.error_reason))
         /\ evaluated' = <<>>
         /\ UNCHANGED <<assigned_jobs, deferred_jobs, working_states>>
    ELSE Classify(job, AssignSingleJob(job))

\* assign_jobs: the for loop takes the next job of the input list.  The list
\* may end after any job, so assign_jobs may return in every state, with the
\* three lists as they are.
AssignJobs ==
    /\ Len(jobs) < MaxJobs
    /\ \E job \in JobInputs(Len(jobs) + 1) :
          AssignJobsStep(job) /\ given' = Append(given, job)
    /\ UNCHANGED <<system_rules, technicians, reference, phase,
                   task, history, job_data,
                   lookup, roster,
                   technician_states, engine>>

Next == AssignJobs

Spec == Init /\ [][Next]_vars

(***************************************************************************)
(* assign_jobs on fixed-time jobs whose fixed_start_time may be a string   *)
(* that int() cannot read: parse_json_input passes any non-blank string    *)
(* on.                                                                     *)
(***************************************************************************)
MaxFitJobs == 3

\* "ab", "09:", ":30", "09:x0"
UnparseableTimes ==
    {<<"a", "b">>, <<"0", "9", ":">>, <<":", "3", "0">>, <<"0", "9", ":", "x", "0">>}

FitShapes ==
    {[time_fixed |-> "True", fixed_start_time |-> t,
      slot_type |-> None, duration_min |-> 120] : t \in UnparseableTimes \cup {Clock0900}}
    \cup {[time_fixed |-> "True", fixed_start_time |-> Clock1130,
           slot_type |-> None, duration_min |-> 400]}

FitJobInputs(job_id) == {NewJob(job_id, "aircon", "A", 1, sh, None) : sh \in FitShapes}

AssignJobsFit ==
    /\ Len(jobs) < MaxFitJobs
    /\ \E job \in FitJobInputs(Len(jobs) + 1) :
          AssignJobsStep(job) /\ given' = Append(given, job)
    /\ UNCHANGED <<system_rules, technicians, reference, phase,
                   task, history, job_data, lookup, roster,
                   technician_states, engine>>

NextFit == AssignJobsFit

SpecFit == Init /\ [][NextFit]_vars

(***************************************************************************)
(* Flexible jobs under working hours that end before or after noon: the    *)
(* slot arithmetic of _check_undefined_time_fit over slot types, durations *)
(* and rules.                                                              *)
(***************************************************************************)

MaxSlotJobs == 2

Clock1100 == <<"1", "1", ":", "0", "0">>

SlotRuleInputs ==
    [work_start : {Clock0900}, work_end : {Clock1100, Clock1200, Clock1800},
     max_preassign_days : {2}, default_buffer_min : {30}]

SlotShapes ==
    [time_fixed : {None}, fixed_start_time : {NoneTime},
     slot_type : {None, "MORNING", "AFTERNOON", "ALLDAY"},
     duration_min : {60, 120, 400}]

SlotJobInputs(job_id) ==
    {NewJob(job_id, sv, "A", 1, sh, None) : sv \in Services, sh \in SlotShapes}

InitSlot ==
    /\ system_rules \in SlotRuleInputs
    /\ technicians \in Rosters
    /\ technician_states \in TechnicianStateInputs
    /\ working_states =
          [id \in {technicians[i].technician_id : i \in 1..Len(technicians)} |->
              SeedState(Technician(id), technician_states)]
    /\ engine = None
    /\ jobs = <<>>
    /\ assigned_jobs = <<>>
    /\ failed_jobs = <<>>
    /\ deferred_jobs = <<>>
    /\ evaluated = <<>>
    /\ given = <<>>
    /\ reference = <<>>
    /\ phase = "run"
    /\ task = None
    /\ history = <<>>
    /\ job_data = None
    /\ lookup = None
    /\ roster = None

AssignJobsSlot ==
    /\ Len(jobs) < MaxSlotJobs
    /\ \E job \in SlotJobInputs(Len(jobs) + 1) :
          AssignJobsStep(job) /\ given' = Append(given, job)
    /\ UNCHANGED <<system_rules, technicians, reference, phase,
                   task, history, job_data, lookup, roster,
                   technician_states, engine>>

NextSlot == AssignJobsSlot

SpecSlot == InitSlot /\ [][NextSlot]_vars

(***************************************************************************)
(* A pair of runs of assign_jobs on the same roster and rules: a reference *)
(* run on an input list, then a second run, on a fresh Scheduler, of the   *)
(* same list with one malformed job (one that parse_json_input gave an     *)
(* error_reason) inserted at some position.  reference keeps what the      *)
(* first run returned, per job, and the list the second run is given.      *)
(***************************************************************************)
Returned(list) == {list[i] : i \in 1..Len(list)}

\* What assign_jobs returned for the job at position k of its input list.
ResultOf(k) ==
    LET a == CHOOSE x \in Returned(assigned_jobs) \cup Returned(failed_jobs)
                           \cup Returned(deferred_jobs) : x.job = k
    IN [class |-> IF a \in Returned(assigned_jobs) THEN "assigned"
                  ELSE IF a \in Returned(failed_jobs) THEN "failed"
                  ELSE "deferred",
        technician_id |-> a.technician_id,
        estimated_start_time |-> a.estimated_start_time,
        estimated_end_time |-> a.estimated_end_time,
        travel_time_minutes |-> a.travel_time_minutes,
        status |-> a.status,
        memo |-> a.memo]

MalformedInputs(job_id) == {job \in JobInputs(job_id) : job.error_reason # None}

InsertAt(list, at, job) ==
    SubSeq(list, 1, at - 1) \o <<job>> \o SubSeq(list, at, Len(list))

InitPair ==
    /\ system_rules \in RuleInputs
    /\ technicians \in Rosters
    /\ technician_states \in TechnicianStateInputs
    /\ working_states =
          [id \in {technicians[i].technician_id : i \in 1..Len(technicians)} |->
              SeedState(Technician(id), technician_states)]
    /\ engine = None
    /\ jobs = <<>>
    /\ assigned_jobs = <<>>
    /\ failed_jobs = <<>>
    /\ deferred_jobs = <<>>
    /\ evaluated = <<>>
    /\ given = <<>>
    /\ reference = [seed |-> working_states, outcomes |-> <<>>,
                    script |-> <<>>, at |-> 0]
    /\ phase = "reference"
    /\ task = None
    /\ history = <<>>
    /\ job_data = None
    /\ lookup = None
    /\ roster = None

\* The reference run takes the next job of its input list.
ReferenceStep ==
    /\ phase = "reference"
    /\ Len(jobs) < MaxJobs - 1
    /\ \E job \in JobInputs(Len(jobs) + 1) :
          AssignJobsStep(job) /\ given' = Append(given, job)
    /\ UNCHANGED <<system_rules, technicians, reference, phase,
                   task, history, job_data,
                   lookup, roster,
                   technician_states, engine>>

\* The reference run returns; a new Scheduler is built on the same roster,
\* snapshots and rules for the list with the malformed job inserted.
Restart ==
    /\ phase = "reference"
    /\ \E at \in 1..(Len(given) + 1) : \E job \in MalformedInputs(at) :
          reference' = [reference EXCEPT
                           !.outcomes = [k \in 1..Len(jobs) |-> ResultOf(k)],
                           !.script = InsertAt(given, at, job),
                           !.at = at]
    /\ phase' = "replay"
    /\ working_states' = reference.seed
    /\ jobs' = <<>>
    /\ assigned_jobs' = <<>>
    /\ failed_jobs' = <<>>
    /\ deferred_jobs' = <<>>
    /\ evaluated' = <<>>
    /\ given' = <<>>
    /\ UNCHANGED <<system_rules, technicians, task, history, job_data,
                   lookup, roster,
                   technician_states, engine>>

\* The second run takes the next job of its list; a job's id is its
\* position in the list it is passed in.
ReplayJob == [reference.script[Len(jobs) + 1] EXCEPT !.job_id = Len(jobs) + 1]

ReplayStep ==
    /\ phase = "replay"
    /\ Len(jobs) < Len(reference.script)
    /\ AssignJobsStep(ReplayJob)
    /\ given' = Append(given, ReplayJob)
    /\ UNCHANGED <<system_rules, technicians, reference, phase,
                   task, history, job_data,
                   lookup, roster,
                   technician_states, engine>>

NextPair == ReferenceStep \/ Restart \/ ReplayStep

SpecPair == InitPair /\ [][NextPair]_vars

(***************************************************************************)
(* A second pass over the deferred jobs.  assign_jobs returned; the caller *)
(* takes the Job objects of the deferred list, as the first pass left      *)
(* them, and passes them to assign_jobs again, on the same Scheduler or on *)
(* a new one built from the same roster, snapshots and rules.              *)
(***************************************************************************)

\* The Job objects behind the deferred list, in list order.
DeferredObjects == [i \in 1..Len(deferred_jobs) |-> jobs[deferred_jobs[i].job]]

SecondPass == {"second pass", "second pass, new scheduler"}

Resubmit ==
    /\ phase = "reference"
    /\ deferred_jobs # <<>>
    /\ reference' = [reference EXCEPT
                        !.outcomes = [k \in 1..Len(jobs) |-> ResultOf(k)],
                        !.script = DeferredObjects]
    /\ \E next \in SecondPass :
          /\ phase' = next
          /\ working_states' = IF next = "second pass" THEN working_states
                               ELSE reference.seed
    /\ jobs' = <<>>
    /\ assigned_jobs' = <<>>
    /\ failed_jobs' = <<>>
    /\ deferred_jobs' = <<>>
    /\ evaluated' = <<>>
    /\ given' = <<>>
    /\ UNCHANGED <<system_rules, technicians, task, history, job_data,
                   lookup, roster,
                   technician_states, engine>>

SecondPassStep ==
    /\ phase \in SecondPass
    /\ Len(jobs) < Len(reference.script)
    /\ AssignJobsStep(ReplayJob)
    /\ given' = Append(given, ReplayJob)
    /\ UNCHANGED <<system_rules, technicians, reference, phase,
                   task, history, job_data,
                   lookup, roster,
                   technician_states, engine>>

NextRetry == ReferenceStep \/ Resubmit \/ SecondPassStep

SpecRetry == InitPair /\ [][NextRetry]_vars

(***************************************************************************)
(* The same list run twice: assign_jobs returned; a new Scheduler is built *)
(* from the same roster, snapshots and rules and is given a list of jobs   *)
(* equal to the one the first run was given.                               *)
(***************************************************************************)

Rerun ==
    /\ phase = "reference"
    /\ given # <<>>
    /\ reference' = [reference EXCEPT
                        !.outcomes = [assigned_jobs |-> assigned_jobs,
                                      failed_jobs |-> failed_jobs,
                                      deferred_jobs |-> deferred_jobs],
                        !.script = given]
    /\ phase' = "replay"
    /\ working_states' = reference.seed
    /\ jobs' = <<>>
    /\ assigned_jobs' = <<>>
    /\ failed_jobs' = <<>>
    /\ deferred_jobs' = <<>>
    /\ evaluated' = <<>>
    /\ given' = <<>>
    /\ UNCHANGED <<system_rules, technicians, task, history, job_data,
                   lookup, roster, technician_states, engine>>

NextTwice == ReferenceStep \/ Rerun \/ ReplayStep

SpecTwice == InitPair /\ [][NextTwice]_vars

(***************************************************************************)
(* assign_engine.py: AssignmentEngine.assign with cp_level >= 2.  A        *)
(* coordinate pair is a location token and distance_km a table over the    *)
(* tokens; a score is kept as ten times the code's float so that it stays  *)
(* an integer.                                                             *)
(***************************************************************************)

MaxWorks == 3

\* time_band: "오전", "오후", "상관없음"
BAND_AM == "AM"
BAND_PM == "PM"
BAND_ANY == "ANY"

DistanceKm(a, b) ==
    IF a = b THEN 0
    ELSE IF {a, b} = {"L0", "L1"} THEN 3
    ELSE 8

\* servicetimes: base_min_per_unit by service_type, 120 when not listed
BaseMinPerUnit(service_type) == IF service_type = "wall" THEN 60 ELSE 120

\* get_tech_factors and the lookup of calc_service_min: factor_<service>
TechFactor(tech, service_type) ==
    IF service_type = "wall" THEN tech.factor_wall ELSE 1

CalcServiceMin(service_type, units, tech) ==
    BaseMinPerUnit(service_type) * units * TechFactor(tech, service_type)

IsTechOff(tech_id, preferred_date, techoffs) ==
    \E toff \in techoffs : toff.tech_id = tech_id /\ toff.off_date = preferred_date

TimeToMinutes(time_str) ==
    LET parts == Split(time_str) IN IntVal(parts[1]) * 60 + IntVal(parts[2])

EngineMinutesToTime(minutes) ==
    Pad2(minutes \div 60) \o <<":">> \o Pad2(minutes % 60)

GetTimeBandRange(time_band) ==
    IF time_band = BAND_AM THEN <<9 * 60, 12 * 60>>
    ELSE IF time_band = BAND_PM THEN <<12 * 60, 18 * 60>>
    ELSE <<9 * 60, 18 * 60>>

GetAvailableTechs(preferred_date) ==
    SelectSeq(engine.techs,
              LAMBDA tech : tech.active
                            /\ ~IsTechOff(tech.tech_id, preferred_date, engine.techoffs))

\* available_techs[start_idx:] + available_techs[:start_idx]
Rotated(available_techs) ==
    LET start_idx == engine.last_index % Len(available_techs)
    IN SubSeq(available_techs, start_idx + 1, Len(available_techs))
       \o SubSeq(available_techs, 1, start_idx)

TechAssignCounts(tech_id) ==
    Cardinality({i \in 1..Len(engine.results) :
                    engine.results[i].assigned_tech_id = tech_id})

\* CP3: before the loop, assign makes the first work's location the anchor
\* of its date; region_anchors as the loop sees it when it takes the work.
Anchors(work) ==
    IF engine.cp_level >= 3 /\ Len(engine.works) = 0 /\ work.loc # None
    THEN {[date |-> work.preferred_date, loc |-> work.loc]}
    ELSE engine.region_anchors

\* calculate_score, times ten
CalculateScore(work, travel_km, service_min, load_penalty) ==
    LET anchors == {a \in Anchors(work) : a.date = work.preferred_date}
        anchor_dist == DistanceKm(work.loc, (CHOOSE a \in anchors : TRUE).loc)
        score == travel_km * 100 + service_min * 3 + load_penalty * 10
    IN IF anchors # {} /\ anchor_dist < 5 THEN score - anchor_dist * 20 ELSE score

Larger(a, b) == IF a >= b THEN a ELSE b

\* The scan of the technician's sorted schedule for a gap.
RECURSIVE ScanSchedule(_, _, _, _, _)
ScanSchedule(tech_schedule, i, slot_start, service_min, band_end) ==
    IF i > Len(tech_schedule)
    THEN [slot_found |-> slot_start + service_min <= band_end,
          slot_start |-> slot_start]
    ELSE IF /\ slot_start + service_min <= tech_schedule[i].start_min
            /\ slot_start + service_min <= band_end
         THEN [slot_found |-> TRUE, slot_start |-> slot_start]
    ELSE ScanSchedule(tech_schedule, i + 1,
                      Larger(slot_start, tech_schedule[i].end_min),
                      service_min, band_end)

FindSlot(tech_schedule, service_min, time_band) ==
    IF Len(tech_schedule) = 0
    THEN [slot_found |-> TRUE, slot_start |-> GetTimeBandRange(time_band)[1]]
    ELSE ScanSchedule(tech_schedule, 1, GetTimeBandRange(time_band)[1], service_min,
                      GetTimeBandRange(time_band)[2])

NoBest == [tech_id |-> None, score |-> Infinity, travel_km |-> 0, service_min |-> 0,
           start_time |-> NoneTime, end_time |-> NoneTime]

\* The body of the loop over the rotated technicians.
TryTech(best, work, tech) ==
    LET travel_km == DistanceKm(work.loc, tech.home)
        service_min == CalcServiceMin(work.service_type, work.units, tech)
        slot == FindSlot(engine.tech_schedules[tech.tech_id], service_min,
                         work.time_band)
        score == CalculateScore(work, travel_km, service_min,
                                TechAssignCounts(tech.tech_id) * 5)
    IN IF ~slot.slot_found THEN best
       ELSE IF score < best.score
            THEN [tech_id |-> tech.tech_id, score |-> score,
                  travel_km |-> travel_km, service_min |-> service_min,
                  start_time |-> EngineMinutesToTime(slot.slot_start),
                  end_time |-> EngineMinutesToTime(slot.slot_start + service_min)]
       ELSE best

RECURSIVE TryTechs(_, _, _, _)
TryTechs(best, work, techs, i) ==
    IF i > Len(techs) THEN best
    ELSE TryTechs(TryTech(best, work, techs[i]), work, techs, i + 1)

\* best_result, NoBest standing for None
FindBestTechCp2(work) ==
    IF Len(GetAvailableTechs(work.preferred_date)) = 0 \/ work.loc = None
    THEN NoBest
    ELSE TryTechs(NoBest, work, Rotated(GetAvailableTechs(work.preferred_date)), 1)

\* append((start_min, end_min, work)) and sort()
Before(a, b) ==
    a.start_min < b.start_min
    \/ (a.start_min = b.start_min /\ a.end_min < b.end_min)

AddSlot(tech_schedule, slot) ==
    LET earlier == SelectSeq(tech_schedule, LAMBDA x : ~Before(slot, x))
        later == SelectSeq(tech_schedule, LAMBDA x : Before(slot, x))
    IN earlier \o <<slot>> \o later

Recorded(best, work) ==
    IF best.tech_id = None THEN engine.tech_schedules
    ELSE [engine.tech_schedules EXCEPT
             ![best.tech_id] =
                 AddSlot(@, [start_min |-> TimeToMinutes(best.start_time),
                             end_min |-> TimeToMinutes(best.end_time),
                             work |-> work.rowNumber])]

\* The result record of assign for one work; a NEEDS_HELP record has no
\* technician and no times.
ResultRecord(best, work) ==
    [rowNumber |-> work.rowNumber,
     assigned_tech_id |-> best.tech_id,
     assign_status |-> IF best.tech_id = None THEN "NEEDS_HELP" ELSE "ASSIGNED",
     travel_km |-> best.travel_km,
     calc_service_min |-> best.service_min,
     start_time |-> best.start_time,
     end_time |-> best.end_time]

NewLastIndex(best, work) ==
    IF best.tech_id = None THEN engine.new_last_index
    ELSE (CHOOSE idx \in 1..Len(GetAvailableTechs(work.preferred_date)) :
              GetAvailableTechs(work.preferred_date)[idx].tech_id = best.tech_id) - 1

EngineTechs ==
    <<[tech_id |-> "E1", active |-> TRUE, home |-> "L0", factor_wall |-> 1],
      [tech_id |-> "E2", active |-> TRUE, home |-> "L1", factor_wall |-> 2],
      [tech_id |-> "E3", active |-> FALSE, home |-> "L0", factor_wall |-> 1]>>

TechOffs == {[tech_id |-> "E2", off_date |-> 2]}

WorkInputs(rowNumber) ==
    {[rowNumber |-> rowNumber, service_type |-> sv.service_type, units |-> sv.units,
      time_band |-> band, preferred_date |-> at.date, loc |-> at.loc] :
        sv \in {[service_type |-> "wall", units |-> 1],
                [service_type |-> "stand", units |-> 1],
                [service_type |-> "wall", units |-> 4]},
        band \in {BAND_AM, BAND_PM, BAND_ANY},
        at \in {[date |-> 1, loc |-> "L0"], [date |-> 1, loc |-> "L1"],
                [date |-> 2, loc |-> "L0"]}}
    \cup {[rowNumber |-> rowNumber, service_type |-> "wall", units |-> 1,
           time_band |-> BAND_ANY, preferred_date |-> 1, loc |-> None]}

InitEngine ==
    /\ engine \in [techs : {EngineTechs}, techoffs : {TechOffs},
                   last_index : {0, 1}, cp_level : {2, 3},
                   tech_schedules : {[id \in {"E1", "E2", "E3"} |-> <<>>]},
                   region_anchors : {{}},
                   results : {<<>>}, new_last_index : {0, 1},
                   works : {<<>>}]
    /\ engine.new_last_index = engine.last_index
    /\ system_rules = None
    /\ technicians = <<>>
    /\ working_states = <<>>
    /\ jobs = <<>>
    /\ assigned_jobs = <<>>
    /\ failed_jobs = <<>>
    /\ deferred_jobs = <<>>
    /\ evaluated = <<>>
    /\ given = <<>>
    /\ reference = <<>>
    /\ phase = "assign"
    /\ task = None
    /\ history = <<>>
    /\ job_data = None
    /\ lookup = None
    /\ roster = None
    /\ technician_states = <<>>

\* One pass of the loop of assign over the works.
AssignWork(work) ==
    engine' =
        LET anchored == [engine EXCEPT !.region_anchors = Anchors(work)]
        IN [anchored EXCEPT
               !.tech_schedules = Recorded(FindBestTechCp2(work), work),
               !.results = Append(@, ResultRecord(FindBestTechCp2(work), work)),
               !.new_last_index = NewLastIndex(FindBestTechCp2(work), work),
               !.works = Append(@, work)]

EngineAssign ==
    /\ Len(engine.works) < MaxWorks
    /\ \E work \in WorkInputs(Len(engine.works) + 1) : AssignWork(work)
    /\ UNCHANGED <<system_rules, technicians, working_states, jobs, assigned_jobs,
                   failed_jobs, deferred_jobs, evaluated, given, reference, phase,
                   task, history, job_data, lookup, roster, technician_states>>

NextEngine == EngineAssign

SpecEngine == InitEngine /\ [][NextEngine]_vars

(***************************************************************************)
(* Scheduler.__init__ (scheduler.py 16-43), one technician of the roster   *)
(* per step, for the technician_states parse_json_input builds             *)
(* (main.py 268-272: technician_id, last_address, last_end_time).  A       *)
(* location is the address token scheduler.py and main.py work with.       *)
(***************************************************************************)

MaxSnapshots == 2

TechnicianStateObjects ==
    [technician_id : {"T1", "T2", "T9"},
     last_address : {None, "", "A"},
     last_end_time : {NoneTime, Clock1800}]

SnapshotLists(n) == UNION {[1..k -> TechnicianStateObjects] : k \in 0..n}

\* The technician the for loop of __init__ takes next.
Seeded == Cardinality(DOMAIN working_states)

InitSeed ==
    /\ system_rules \in RuleInputs
    /\ technicians \in Rosters
    /\ technician_states \in SnapshotLists(MaxSnapshots)
    /\ working_states = <<>>
    /\ phase = "__init__"
    /\ jobs = <<>>
    /\ assigned_jobs = <<>>
    /\ failed_jobs = <<>>
    /\ deferred_jobs = <<>>
    /\ evaluated = <<>>
    /\ given = <<>>
    /\ reference = <<>>
    /\ task = None
    /\ history = <<>>
    /\ job_data = None
    /\ lookup = None
    /\ roster = None
    /\ engine = None

SeedFrame ==
    UNCHANGED <<system_rules, technicians, jobs, assigned_jobs, failed_jobs,
                deferred_jobs, evaluated, given, reference, task, history,
                job_data, lookup, roster, technician_states, engine>>

SeedNext ==
    /\ phase = "__init__"
    /\ Seeded < Len(technicians)
    /\ working_states' =
          [id \in DOMAIN working_states \cup {technicians[Seeded + 1].technician_id} |->
              IF id \in DOMAIN working_states THEN working_states[id]
              ELSE SeedState(technicians[Seeded + 1], technician_states)]
    /\ UNCHANGED phase
    /\ SeedFrame

SeedReturns ==
    /\ phase = "__init__"
    /\ Seeded = Len(technicians)
    /\ phase' = "constructed"
    /\ UNCHANGED working_states
    /\ SeedFrame

NextSeed == SeedNext \/ SeedReturns

SpecSeed == InitSeed /\ [][NextSeed]_vars

(***************************************************************************)
(* fallback_handler.py: FallbackHandler.apply_fallbacks, called one or     *)
(* more times on the same Task object.  The keys of                        *)
(* config.DEFAULT_DURATION_BY_SERVICE are Korean service names; "movein"   *)
(* and "aircon" stand for two of them, "other" for a service not in the    *)
(* table.                                                                  *)
(***************************************************************************)
MaxRuns == 2

\* not s or s.strip() == ""
Blank(s) == s = None \/ s = "" \/ s = " "

DefaultDurationByService(service_type) ==
    IF service_type = "movein" THEN 180
    ELSE IF service_type = "aircon" THEN 120
    ELSE 0

\* duration_minutes = None
NoneMinutes == -1

\* worker_state = None
NoWorkerState ==
    [present |-> FALSE, last_location |-> None, home_address |-> "",
     overtime_enabled |-> FALSE]

DurationInvalid(duration_minutes) ==
    duration_minutes = NoneMinutes \/ duration_minutes <= 0

Fallback(progress, field, value, note) ==
    [task |-> [progress.task EXCEPT ![field] = value],
     fallback_used |-> TRUE,
     fallback_details |-> Append(progress.fallback_details, note)]

\* 2. duration_minutes
FallbackDuration(progress) ==
    IF DurationInvalid(progress.task.duration_minutes)
    THEN Fallback(progress, "duration_minutes",
                  DefaultDurationByService(progress.task.service_type),
                  "duration_minutes: default_duration")
    ELSE progress

\* 3. current_location
FallbackLocation(progress, worker_state) ==
    IF ~Blank(progress.task.current_location) THEN progress
    ELSE IF ~worker_state.present
    THEN [progress EXCEPT !.task.current_location = ""]
    ELSE IF worker_state.last_location # None /\ worker_state.last_location # ""
    THEN Fallback(progress, "current_location", worker_state.last_location,
                  "current_location: last_location")
    ELSE Fallback(progress, "current_location", worker_state.home_address,
                  "current_location: home_address")

\* 4. fixed_start_time
FallbackFixedStart(progress) ==
    IF progress.task.fixed_start_time = None \/ progress.task.fixed_start_time = ""
    THEN [progress EXCEPT !.task.fixed_start_time = None]
    ELSE progress

\* 5. slot_type
FallbackSlot(progress) ==
    IF Blank(progress.task.slot_type)
    THEN Fallback(progress, "slot_type", "ALLDAY", "slot_type: ALLDAY")
    ELSE progress

\* Mutant of FallbackOvertime: the worker's overtime_enabled is not consulted.
FallbackOvertimeIgnoresWorker(progress, worker_state) ==
    IF progress.task.overtime_allowed # None THEN progress
    ELSE Fallback(progress, "overtime_allowed", "False", "overtime_allowed: false")

\* 6. overtime_allowed
FallbackOvertime(progress, worker_state) ==
    IF progress.task.overtime_allowed # None THEN progress
    ELSE IF worker_state.present
    THEN Fallback(progress, "overtime_allowed",
                  IF worker_state.overtime_enabled THEN "True" ELSE "False",
                  IF worker_state.overtime_enabled
                  THEN "overtime_allowed: worker.overtime_enabled (True)"
                  ELSE "overtime_allowed: worker.overtime_enabled (False)")
    ELSE Fallback(progress, "overtime_allowed", "False", "overtime_allowed: false")

Finish(progress) ==
    [task |-> [progress.task EXCEPT !.fallback_used = progress.fallback_used,
                                    !.fallback_details = progress.fallback_details],
     ok |-> TRUE]

Terminal(t, note) ==
    [task |-> [t EXCEPT !.fallback_used = TRUE, !.fallback_details = <<note>>],
     ok |-> FALSE]

ApplyFallbacks(t, worker_state) ==
    IF Blank(t.service_type) THEN Terminal(t, "service_type_missing")
    ELSE IF DurationInvalid(t.duration_minutes)
            /\ DefaultDurationByService(t.service_type) = 0
    THEN Terminal(t, "duration_missing")
    ELSE Finish(
             FallbackOvertime(
                 FallbackSlot(
                     FallbackFixedStart(
                         FallbackLocation(
                             FallbackDuration(
                                 [task |-> t, fallback_used |-> FALSE,
                                  fallback_details |-> <<>>]),
                             worker_state))),
                 worker_state))

TaskInputs ==
    [service_type : {"", "aircon", "other"},
     duration_minutes : {NoneMinutes, 0, 90},
     current_location : {None, "X"},
     fixed_start_time : {None, "09:00"},
     slot_type : {None, "MORNING"},
     overtime_allowed : {None, "True"},
     fallback_used : {FALSE},
     fallback_details : {<<>>},
     error_reason : {None}]

WorkerStateInputs ==
    {NoWorkerState}
    \cup [present : {TRUE}, last_location : {None, "L"}, home_address : {"H"},
          overtime_enabled : {TRUE, FALSE}]

InitFallback ==
    /\ task \in TaskInputs
    /\ history = <<>>
    /\ system_rules = None
    /\ technicians = <<>>
    /\ working_states = <<>>
    /\ jobs = <<>>
    /\ assigned_jobs = <<>>
    /\ failed_jobs = <<>>
    /\ deferred_jobs = <<>>
    /\ evaluated = <<>>
    /\ given = <<>>
    /\ reference = <<>>
    /\ phase = "fallback"
    /\ job_data = None
    /\ lookup = None
    /\ roster = None
    /\ technician_states = <<>>
    /\ engine = None

\* One call of apply_fallbacks on the Task, which it changes in place.
ApplyFallbacksCall ==
    /\ Len(history) < MaxRuns
    /\ \E worker_state \in WorkerStateInputs :
          /\ task' = ApplyFallbacks(task, worker_state).task
          /\ history' = Append(history, ApplyFallbacks(task, worker_state))
    /\ UNCHANGED <<system_rules, technicians, working_states, jobs, assigned_jobs,
                   failed_jobs, deferred_jobs, evaluated, given, reference, phase,
                   job_data,
                   lookup, roster,
                   technician_states, engine>>

NextFallback == ApplyFallbacksCall

SpecFallback == InitFallback /\ [][NextFallback]_vars

(***************************************************************************)
(* main.py: a request with one raw job record.  parse_json_input turns the *)
(* record into a Job, a Scheduler is built and assign_jobs runs on it.     *)
(* FallbackHandler is not called on this path.                             *)
(***************************************************************************)
\* main.py:190, "required field missing: " and the names of the fields
REASON_MISSING_SERVICE == "REQUIRED_FIELD_MISSING: service_type"
REASON_MISSING_DURATION == "REQUIRED_FIELD_MISSING: duration_min"
REASON_MISSING_BOTH == "REQUIRED_FIELD_MISSING: service_type, duration_min"
\* main.py:205, "date format error"
REASON_DATE_FORMAT == "DATE_FORMAT_ERROR"

\* a date string date.fromisoformat rejects
MalformedDate == -1

\* date.today()
Today == 1

MissingFields(d) ==
    (IF d.service_type = None THEN <<"service_type">> ELSE <<>>)
    \o (IF d.duration_min = NoneMinutes THEN <<"duration_min">> ELSE <<>>)

MissingReason(missing_fields) ==
    IF missing_fields = <<"service_type">> THEN REASON_MISSING_SERVICE
    ELSE IF missing_fields = <<"duration_min">> THEN REASON_MISSING_DURATION
    ELSE REASON_MISSING_BOTH

\* fixed_start_time.strip() == ""
StripsToEmpty(s) == \A i \in 1..Len(s) : s[i] = " "

\* Mutant of ParseJob: a fixed-time job without a start time is not marked.
ParseJobNoFixedCheck(d) ==
    LET fixed_start_time == IF Truthy(d.fixed_start_time) THEN d.fixed_start_time
                            ELSE NoneTime
        job == [job_id |-> d.job_id, service_type |-> d.service_type,
                address |-> d.address, date |-> d.date,
                duration_min |-> d.duration_min,
                time_fixed |-> None, fixed_start_time |-> NoneTime,
                slot_type |-> None, fallback_used |-> FALSE,
                fallback_details |-> <<>>, error_reason |-> None]
    IN IF MissingFields(d) # <<>>
       THEN [job EXCEPT
                !.service_type = IF d.service_type = None THEN "" ELSE @,
                !.duration_min = IF d.duration_min = NoneMinutes THEN 0 ELSE @,
                !.date = IF d.date = MalformedDate THEN Today ELSE @,
                !.error_reason = MissingReason(MissingFields(d))]
       ELSE IF d.date = MalformedDate
       THEN [job EXCEPT !.date = Today, !.error_reason = REASON_DATE_FORMAT]
       ELSE [job EXCEPT !.time_fixed = d.time_fixed,
                        !.fixed_start_time = fixed_start_time,
                        !.slot_type = d.slot_type]

\* The Job parse_json_input appends for the record d.
ParseJob(d) ==
    LET fixed_start_time == IF Truthy(d.fixed_start_time) THEN d.fixed_start_time
                            ELSE NoneTime
        job == [job_id |-> d.job_id, service_type |-> d.service_type,
                address |-> d.address, date |-> d.date,
                duration_min |-> d.duration_min,
                time_fixed |-> None, fixed_start_time |-> NoneTime,
                slot_type |-> None, fallback_used |-> FALSE,
                fallback_details |-> <<>>, error_reason |-> None]
    IN IF MissingFields(d) # <<>>
       THEN [job EXCEPT
                !.service_type = IF d.service_type = None THEN "" ELSE @,
                !.duration_min = IF d.duration_min = NoneMinutes THEN 0 ELSE @,
                !.date = IF d.date = MalformedDate THEN Today ELSE @,
                !.error_reason = MissingReason(MissingFields(d))]
       ELSE IF d.date = MalformedDate
       THEN [job EXCEPT !.date = Today, !.error_reason = REASON_DATE_FORMAT]
       ELSE IF d.time_fixed = "True"
               /\ (~Truthy(fixed_start_time) \/ StripsToEmpty(fixed_start_time))
       THEN [job EXCEPT !.time_fixed = d.time_fixed,
                        !.fixed_start_time = fixed_start_time,
                        !.slot_type = d.slot_type,
                        !.error_reason = REASON_FIXED_TIME_MISSING]
       ELSE [job EXCEPT !.time_fixed = d.time_fixed,
                        !.fixed_start_time = fixed_start_time,
                        !.slot_type = d.slot_type]

RawJobs ==
    [job_id : {1}, service_type : {None, "", "aircon", "other"},
     address : {"A"}, date : {1, MalformedDate},
     duration_min : {NoneMinutes, 0, 120},
     time_fixed : {None, "True"},
     fixed_start_time : {NoneTime, <<>>, <<" ">>, Clock0900},
     slot_type : {None}]

\* T1 also handles a service that has no default duration.
IngestRosters ==
    {<<[technician_id |-> "T1", home_address |-> "H1",
        service_types |-> {"aircon", "other"}, overtime_allowed |-> FALSE],
       [technician_id |-> "T2", home_address |-> "H2",
        service_types |-> {"aircon"}, overtime_allowed |-> TRUE]>>}

InitIngest ==
    /\ job_data \in RawJobs
    /\ system_rules \in RuleInputs
    /\ technicians \in IngestRosters
    /\ technician_states \in TechnicianStateInputs
    /\ working_states =
          [id \in {technicians[i].technician_id : i \in 1..Len(technicians)} |->
              SeedState(Technician(id), technician_states)]
    /\ engine = None
    /\ jobs = <<>>
    /\ assigned_jobs = <<>>
    /\ failed_jobs = <<>>
    /\ deferred_jobs = <<>>
    /\ evaluated = <<>>
    /\ given = <<>>
    /\ reference = <<>>
    /\ phase = "request"
    /\ task = None
    /\ history = <<>>
    /\ lookup = None
    /\ roster = None

\* The request is parsed and the job goes through the loop of assign_jobs.
HandleRequest ==
    /\ phase = "request"
    /\ AssignJobsStep(ParseJob(job_data))
    /\ given' = <<ParseJob(job_data)>>
    /\ phase' = "answered"
    /\ UNCHANGED <<system_rules, technicians, reference, task, history, job_data,
                   lookup, roster,
                   technician_states, engine>>

NextIngest == HandleRequest

SpecIngest == InitIngest /\ [][NextIngest]_vars

(***************************************************************************)
(* kakao_api.py: one call of calculate_travel_time, request by request.    *)
(* The directions service is the environment: each requests.get either     *)
(* answers 200 with a route, 200 with no route, 200 with a body the code   *)
(* cannot read (response.json() or RouteInfo.from_kakao_api raises), 400,  *)
(* another status, or raises (timeout, connection error).                  *)
(***************************************************************************)
RetryCount == 2

Responses == {"route", "no_routes", "unreadable", "bad_request", "error_status", "exception"}

OriginInputs == {"", " ", "H1", "H2"}

DestInputs == {"", " ", "A"}

\* not address or not address.strip()
EmptyAddress(address) == address = "" \/ address = " "

\* calculate_travel_time has returned value.
Returns(l, value) == [l EXCEPT !.pc = "returned", !.result = value]

\* The loop goes on to the next attempt (continue), or ends; after its end
\* get_route_info_by_address returns None and calculate_travel_time the
\* fail_value.
NextAttempt(l) ==
    IF l.attempt < RetryCount
    THEN [l EXCEPT !.attempt = @ + 1]
    ELSE Returns(l, FailValue)

\* Mutant of AfterResponse: a 400 answer is retried like any other error
\* status.
AfterResponseRetries400(l, response) ==
    IF response = "route"
    THEN Returns(l, RouteMinutes(l.origin_address, l.dest_address))
    ELSE NextAttempt(l)

\* What the body of the retry loop does with the answer to its request.
AfterResponse(l, response) ==
    IF response = "route"
    THEN Returns(l, RouteMinutes(l.origin_address, l.dest_address))
    ELSE IF response = "bad_request"
    THEN Returns(l, FailValue)
    ELSE NextAttempt(l)

InitLookup ==
    /\ \E o \in OriginInputs, d \in DestInputs :
          lookup = [origin_address |-> o, dest_address |-> d, pc |-> "called",
                    attempt |-> 0, responses |-> <<>>, result |-> FailValue]
    /\ system_rules = None
    /\ technicians = <<>>
    /\ working_states = <<>>
    /\ jobs = <<>>
    /\ assigned_jobs = <<>>
    /\ failed_jobs = <<>>
    /\ deferred_jobs = <<>>
    /\ evaluated = <<>>
    /\ given = <<>>
    /\ reference = <<>>
    /\ phase = "lookup"
    /\ task = None
    /\ history = <<>>
    /\ job_data = None
    /\ roster = None
    /\ technician_states = <<>>
    /\ engine = None

\* calculate_travel_time up to the call of get_route_info_by_address.
ValidateAddresses ==
    /\ lookup.pc = "called"
    /\ lookup' = IF EmptyAddress(lookup.origin_address) \/ EmptyAddress(lookup.dest_address)
                 THEN Returns(lookup, FailValue)
                 ELSE [lookup EXCEPT !.pc = "requesting"]
    /\ UNCHANGED <<system_rules, technicians, working_states, jobs, assigned_jobs,
                   failed_jobs, deferred_jobs, evaluated, given, reference, phase,
                   task, history, job_data, roster,
                   technician_states, engine>>

\* One requests.get of the retry loop and what the loop does with its answer.
Request ==
    /\ lookup.pc = "requesting"
    /\ \E response \in Responses :
          lookup' = AfterResponse([lookup EXCEPT !.responses = Append(@, response)],
                                  response)
    /\ UNCHANGED <<system_rules, technicians, working_states, jobs, assigned_jobs,
                   failed_jobs, deferred_jobs, evaluated, given, reference, phase,
                   task, history, job_data, roster,
                   technician_states, engine>>

NextLookup == ValidateAddresses \/ Request

\* requests.get has timeout=10, so every request is answered or raises.
SpecLookup == InitLookup /\ [][NextLookup]_vars /\ WF_vars(NextLookup)

(***************************************************************************)
(* main.py: the stored roster.  _technicians_storage names a list object,  *)
(* _technicians_loaded is its flag and _technicians_lock guards both.  A   *)
(* list object is a position of heap, so that a copy (a new object) and an *)
(* alias (the same object) are different things.  One thread serves        *)
(* POST /jobs (create_job); another runs load_technicians_from_sheets, as  *)
(* the periodic refresh or for POST /refresh-technicians.                  *)
(***************************************************************************)
MaxRequests == 2

MaxRefresh == 2

\* What the sheet may hold when read_technicians reads it.
SheetContents == {<<"T1">>, <<"T1", "T2">>}

\* The list object the module starts with: _technicians_storage = [].
InitialList == 1

\* Mutant of Snapshot: the request keeps the stored list itself.
SnapshotAlias(r) ==
    [r EXCEPT !.request.technicians = r.storage,
              !.request.copied = r.heap[r.storage],
              !.request.pc = "copied"]

\* technicians = _technicians_storage.copy(): a new list object with the
\* elements of the stored one.
Snapshot(r) ==
    [r EXCEPT !.heap = Append(@, r.heap[r.storage]),
              !.request.technicians = Len(r.heap) + 1,
              !.request.copied = r.heap[r.storage],
              !.request.pc = "copied"]

IdleRequest(runs) ==
    [pc |-> "idle", technicians |-> 0, copied |-> <<>>, seen |-> <<>>, runs |-> runs]

InitRoster ==
    /\ technician_states = <<>>
    /\ engine = None
    /\ roster = [heap |-> << <<>> >>, storage |-> InitialList, loaded |-> FALSE,
                 lock |-> "free",
                 request |-> IdleRequest(0),
                 refresh |-> [pc |-> "idle", technicians |-> 0, runs |-> 0]]
    /\ system_rules = None
    /\ technicians = <<>>
    /\ working_states = <<>>
    /\ jobs = <<>>
    /\ assigned_jobs = <<>>
    /\ failed_jobs = <<>>
    /\ deferred_jobs = <<>>
    /\ evaluated = <<>>
    /\ given = <<>>
    /\ reference = <<>>
    /\ phase = "serving"
    /\ task = None
    /\ history = <<>>
    /\ job_data = None
    /\ lookup = None

RosterFrame ==
    UNCHANGED <<system_rules, technicians, working_states, jobs, assigned_jobs,
                failed_jobs, deferred_jobs, evaluated, given, reference, phase,
                task, history, job_data, lookup,
                   technician_states, engine>>

\* read_technicians builds a new list from the sheet.
RefreshRead ==
    /\ roster.refresh.pc = "idle"
    /\ roster.refresh.runs < MaxRefresh
    /\ \E contents \in SheetContents :
          roster' = [roster EXCEPT !.heap = Append(@, contents),
                                   !.refresh.technicians = Len(roster.heap) + 1,
                                   !.refresh.pc = "read"]
    /\ RosterFrame

\* read_technicians raises: load_technicians_from_sheets returns False.
RefreshFails ==
    /\ roster.refresh.pc = "idle"
    /\ roster.refresh.runs < MaxRefresh
    /\ roster' = [roster EXCEPT !.refresh.runs = @ + 1]
    /\ RosterFrame

\* with _technicians_lock:
RefreshAcquire ==
    /\ roster.refresh.pc = "read"
    /\ roster.lock = "free"
    /\ roster' = [roster EXCEPT !.lock = "refresh", !.refresh.pc = "locked"]
    /\ RosterFrame

\* _technicians_storage = technicians
RefreshStore ==
    /\ roster.refresh.pc = "locked"
    /\ roster' = [roster EXCEPT !.storage = roster.refresh.technicians,
                                !.refresh.pc = "stored"]
    /\ RosterFrame

\* _technicians_loaded = True
RefreshFlag ==
    /\ roster.refresh.pc = "stored"
    /\ roster' = [roster EXCEPT !.loaded = TRUE, !.refresh.pc = "flagged"]
    /\ RosterFrame

\* the end of the with block
RefreshRelease ==
    /\ roster.refresh.pc = "flagged"
    /\ roster' = [roster EXCEPT !.lock = "free",
                                !.refresh = [pc |-> "idle", technicians |-> 0,
                                             runs |-> @.runs + 1]]
    /\ RosterFrame

\* create_job: with _technicians_lock:
RequestAcquire ==
    /\ roster.request.pc = "idle"
    /\ roster.request.runs < MaxRequests
    /\ roster.lock = "free"
    /\ roster' = [roster EXCEPT !.lock = "request", !.request.pc = "locked"]
    /\ RosterFrame

\* Under the lock: with nothing loaded the request returns, which leaves the
\* with block; otherwise it takes its copy.
RequestRead ==
    /\ roster.request.pc = "locked"
    /\ roster' = IF ~roster.loaded \/ roster.heap[roster.storage] = <<>>
                 THEN [roster EXCEPT !.lock = "free",
                                     !.request = IdleRequest(@.runs + 1)]
                 ELSE Snapshot(roster)
    /\ RosterFrame

\* the end of the with block
RequestRelease ==
    /\ roster.request.pc = "copied"
    /\ roster' = [roster EXCEPT !.lock = "free", !.request.pc = "iterating"]
    /\ RosterFrame

\* `for tech in technicians`: the iterator reads the next element of the
\* list object, or finds the list exhausted and the request returns.
RequestIterate ==
    /\ roster.request.pc = "iterating"
    /\ LET list == roster.heap[roster.request.technicians]
           i == Len(roster.request.seen)
       IN roster' = IF i < Len(list)
                    THEN [roster EXCEPT !.request.seen = Append(@, list[i + 1])]
                    ELSE [roster EXCEPT !.request = IdleRequest(@.runs + 1)]
    /\ RosterFrame

NextRoster ==
    \/ RefreshRead
    \/ RefreshFails
    \/ RefreshAcquire
    \/ RefreshStore
    \/ RefreshFlag
    \/ RefreshRelease
    \/ RequestAcquire
    \/ RequestRead
    \/ RequestRelease
    \/ RequestIterate

SpecRoster == InitRoster /\ [][NextRoster]_vars

(***************************************************************************)
(* Vocabulary of the properties.  N is the position of the job the loop    *)
(* processed last; Prior... describe a technician's commitments before     *)
(* that job, i.e. the state the job was evaluated in.                      *)
(***************************************************************************)
N == Len(jobs)

Last == jobs[N]

TechIds == DOMAIN working_states

Ids(list) == {list[i].job : i \in 1..Len(list)}

Entries(id) ==
    {working_states[id].assignments_by_date[i] :
        i \in 1..Len(working_states[id].assignments_by_date)}

PreErrored(job) == job.error_reason = REASON_FIXED_TIME_MISSING

IsFixedAssignment(a) ==
    IsTimeFixed(jobs[a.job]) /\ ParseClock(jobs[a.job].fixed_start_time).ok

StartOf(a) == ParseClock(jobs[a.job].fixed_start_time).minutes

EndOf(a) == StartOf(a) + jobs[a.job].duration_min + system_rules.default_buffer_min

Intersect(s1, e1, s2, e2) == s1 < e2 /\ s2 < e1

PriorList(id) ==
    LET same == {e \in Entries(id) : e.date = Last.date}
    IN IF same = {} THEN <<>>
       ELSE SelectSeq((CHOOSE e \in same : TRUE).list, LAMBDA a : a.job # N)

PriorDates(id) ==
    {e.date : e \in {x \in Entries(id) : \E k \in 1..Len(x.list) : x.list[k].job # N}}

MaxOf(S) == CHOOSE d \in S : \A e \in S : e <= d

DayCapAllows(id) ==
    \/ Cardinality(PriorDates(id)) < system_rules.max_preassign_days
    \/ PriorDates(id) = {}
    \/ Last.date > MaxOf(PriorDates(id))

Capable(id) == Last.service_type \in Technician(id).service_types

EvaluatedIds == {evaluated[i].technician_id : i \in 1..Len(evaluated)}

LastIsFixed == IsTimeFixed(Last) /\ ParseClock(Last.fixed_start_time).ok

LastStart == ParseClock(Last.fixed_start_time).minutes

LastEnd == LastStart + Last.duration_min + system_rules.default_buffer_min

WorkStart == RuleMinutes(system_rules.work_start)

WorkEnd == RuleMinutes(system_rules.work_end)

MemoOf(list) == (CHOOSE a \in {list[i] : i \in 1..Len(list)} : a.job = N).memo

FailedWith(reason) ==
    /\ N \in Ids(failed_jobs)
    /\ N \notin Ids(assigned_jobs) \cup Ids(deferred_jobs)
    /\ MemoOf(failed_jobs) = reason
    /\ Last.error_reason = reason

(***************************************************************************)
(* C1.  Each input job is in exactly one of the three output lists, and    *)
(* the three lists together hold exactly the input jobs (those that        *)
(* already carried an error_reason included).                              *)
(***************************************************************************)
C1_Partition ==
    /\ Ids(assigned_jobs) \cup Ids(failed_jobs) \cup Ids(deferred_jobs)
           = {jobs[i].job_id : i \in 1..N}
    /\ Ids(assigned_jobs) \cap Ids(failed_jobs) = {}
    /\ Ids(assigned_jobs) \cap Ids(deferred_jobs) = {}
    /\ Ids(failed_jobs) \cap Ids(deferred_jobs) = {}
    /\ Len(assigned_jobs) + Len(failed_jobs) + Len(deferred_jobs) = N

C1_Witness ==
    /\ N = 2
    /\ PreErrored(jobs[1])
    /\ 1 \in Ids(failed_jobs)
    /\ 2 \in Ids(assigned_jobs)

(***************************************************************************)
(* C2.  For every technician and date, no two committed fixed-time         *)
(* assignments have overlapping half-open intervals                        *)
(* [start, start + duration_min + default_buffer_min).                     *)
(***************************************************************************)
C2_NoOverlap ==
    \A id \in TechIds : \A e \in Entries(id) :
        \A i, k \in 1..Len(e.list) :
            (i < k /\ IsFixedAssignment(e.list[i]) /\ IsFixedAssignment(e.list[k]))
            => ~Intersect(StartOf(e.list[i]), EndOf(e.list[i]),
                          StartOf(e.list[k]), EndOf(e.list[k]))

C2_Witness ==
    \E id \in TechIds : \E e \in Entries(id) :
        /\ Len(e.list) = 2
        /\ IsFixedAssignment(e.list[1])
        /\ IsFixedAssignment(e.list[2])

(***************************************************************************)
(* C3.  As claimed: a fixed-time job that overlaps a fixed-time assignment *)
(* already committed to a candidate on the same date is rejected for that  *)
(* candidate with the conflict reason, and fails with the conflict reason  *)
(* when that candidate is the only capable technician.                     *)
(***************************************************************************)
OverlapsLast(a) ==
    IsFixedAssignment(a) /\ Intersect(LastStart, LastEnd, StartOf(a), EndOf(a))

HasOverlap(id) == \E k \in 1..Len(PriorList(id)) : OverlapsLast(PriorList(id)[k])

FirstOverlap(id) ==
    CHOOSE k \in 1..Len(PriorList(id)) :
        /\ OverlapsLast(PriorList(id)[k])
        /\ \A m \in 1..(k - 1) : ~OverlapsLast(PriorList(id)[m])

TravelShortAt(a, travel_time) ==
    /\ a.estimated_end_time # NoneTime
    /\ ParseClock(a.estimated_end_time).minutes + travel_time > LastStart

OvertimeFor(id) == LastEnd > WorkEnd /\ ~Technician(id).overtime_allowed

OnlyCapable(id) == {t \in TechIds : Capable(t)} = {id}

C3_Original ==
    (N > 0 /\ LastIsFixed) =>
        \A i \in 1..Len(evaluated) :
            HasOverlap(evaluated[i].technician_id) =>
                /\ ~evaluated[i].fit
                /\ evaluated[i].reason = REASON_TIME_CONFLICT
                /\ OnlyCapable(evaluated[i].technician_id)
                       => FailedWith(REASON_TIME_CONFLICT)

(***************************************************************************)
(* C3, amended.  Such a job is always rejected for that candidate; the     *)
(* reason is the conflict reason unless the overtime check rejects first   *)
(* (OVERTIME_NOT_ALLOWED) or the travel check of an assignment committed   *)
(* before the first overlapping one rejects first (travel time short); if  *)
(* the candidate is the only capable technician the job fails with that    *)
(* reason.                                                                 *)
(***************************************************************************)
ExpectedRejection(id, travel_time) ==
    IF OvertimeFor(id) THEN REASON_OVERTIME
    ELSE IF \E m \in 1..(FirstOverlap(id) - 1) :
                TravelShortAt(PriorList(id)[m], travel_time)
         THEN REASON_TRAVEL_SHORT
    ELSE REASON_TIME_CONFLICT

C3_Precedence ==
    (N > 0 /\ LastIsFixed) =>
        \A i \in 1..Len(evaluated) :
            HasOverlap(evaluated[i].technician_id) =>
                /\ ~evaluated[i].fit
                /\ evaluated[i].reason =
                       ExpectedRejection(evaluated[i].technician_id,
                                         evaluated[i].travel_time)
                /\ OnlyCapable(evaluated[i].technician_id)
                       => FailedWith(evaluated[i].reason)

C3_Witness ==
    /\ N > 0
    /\ LastIsFixed
    /\ Len(evaluated) = 1
    /\ HasOverlap(evaluated[1].technician_id)
    /\ OnlyCapable(evaluated[1].technician_id)
    /\ evaluated[1].reason = REASON_TIME_CONFLICT
    /\ FailedWith(REASON_TIME_CONFLICT)

(***************************************************************************)
(* C4.  A capable technician who already holds assignments on              *)
(* max_preassign_days (or more) distinct dates is a candidate of the job   *)
(* exactly when the job's date is strictly later than the latest of them.  *)
(***************************************************************************)
C4_DayCap ==
    (N > 0 /\ ~PreErrored(Last)) =>
        \A id \in TechIds :
            (Capable(id)
             /\ Cardinality(PriorDates(id)) >= system_rules.max_preassign_days)
            => (id \in EvaluatedIds <=> Last.date > MaxOf(PriorDates(id)))

C4_Witness ==
    /\ N > 0
    /\ ~PreErrored(Last)
    /\ \E id \in TechIds :
          /\ Capable(id)
          /\ Cardinality(PriorDates(id)) = system_rules.max_preassign_days
          /\ Last.date > MaxOf(PriorDates(id))
          /\ id \in EvaluatedIds
    /\ \E id \in TechIds :
          /\ Capable(id)
          /\ Cardinality(PriorDates(id)) = system_rules.max_preassign_days
          /\ Last.date <= MaxOf(PriorDates(id))
          /\ id \notin EvaluatedIds

(***************************************************************************)
(* C5.  As claimed: no technician's working state holds assignments on     *)
(* more than max_preassign_days distinct dates.                            *)
(***************************************************************************)
C5_Original ==
    \A id \in TechIds :
        Cardinality({e.date : e \in Entries(id)}) <= system_rules.max_preassign_days

(***************************************************************************)
(* C5, amended.  A working state may hold more than max_preassign_days     *)
(* distinct dates, but every date beyond the first max_preassign_days, in  *)
(* commit order, is strictly later than all dates committed before it.     *)
(***************************************************************************)
C5_LaterOnly ==
    \A id \in TechIds :
        LET abd == working_states[id].assignments_by_date
        IN \A i \in 1..Len(abd) :
               i > system_rules.max_preassign_days
               => \A k \in 1..(i - 1) : abd[k].date < abd[i].date

C5_Witness ==
    \E id \in TechIds :
        Len(working_states[id].assignments_by_date) > system_rules.max_preassign_days

(***************************************************************************)
(* C6.  A job is deferred exactly when it carried no prior error_reason,   *)
(* some technician is capable of its service_type and the day-cap rule     *)
(* excludes every capable technician; a deferred job is not failed and no  *)
(* travel lookup or fit check is made for it.                              *)
(***************************************************************************)
C6_Deferred ==
    N > 0 =>
        /\ (N \in Ids(deferred_jobs))
           <=> (/\ ~PreErrored(Last)
                /\ \E id \in TechIds : Capable(id)
                /\ \A id \in TechIds : Capable(id) => ~DayCapAllows(id))
        /\ (N \in Ids(deferred_jobs))
           => (evaluated = <<>> /\ N \notin Ids(failed_jobs))

C6_Witness ==
    /\ N > 0
    /\ N \in Ids(deferred_jobs)
    /\ Cardinality({id \in TechIds : Capable(id)}) = 2

(***************************************************************************)
(* C7.  As claimed: after assign_jobs returns, the error_reason of every   *)
(* deferred job is still unset.                                            *)
(***************************************************************************)
C7_DeferredKeepsNoReason ==
    \A i \in 1..Len(deferred_jobs) :
        jobs[deferred_jobs[i].job].error_reason = None

C9_Original ==
    (N > 0 /\ LastIsFixed /\ LastEnd > WorkEnd) =>
        \A i \in 1..Len(evaluated) :
            LET id == evaluated[i].technician_id
            IN /\ ~Technician(id).overtime_allowed
                  => (~evaluated[i].fit /\ evaluated[i].reason = REASON_OVERTIME)
               /\ (Technician(id).overtime_allowed /\ ~HasOverlap(id))
                  => (evaluated[i].fit
                      /\ evaluated[i].score = evaluated[i].travel_time)

(***************************************************************************)
(* C9, amended.  ... and accepted with score = travel time for a           *)
(* technician with overtime who has no overlapping same-date assignment    *)
(* and no same-date assignment whose estimated end plus the travel time    *)
(* exceeds the job's start.                                                *)
(***************************************************************************)
NoTravelShort(id, travel_time) ==
    \A m \in 1..Len(PriorList(id)) : ~TravelShortAt(PriorList(id)[m], travel_time)

C9_Overtime ==
    (N > 0 /\ LastIsFixed /\ LastEnd > WorkEnd) =>
        \A i \in 1..Len(evaluated) :
            LET id == evaluated[i].technician_id
            IN /\ ~Technician(id).overtime_allowed
                  => (~evaluated[i].fit /\ evaluated[i].reason = REASON_OVERTIME)
               /\ (/\ Technician(id).overtime_allowed
                   /\ ~HasOverlap(id)
                   /\ NoTravelShort(id, evaluated[i].travel_time))
                  => (evaluated[i].fit
                      /\ evaluated[i].score = evaluated[i].travel_time)

C9_Witness ==
    /\ N > 0
    /\ LastIsFixed
    /\ LastEnd > WorkEnd
    /\ Len(evaluated) = 2
    /\ ~Technician(evaluated[1].technician_id).overtime_allowed
    /\ evaluated[1].reason = REASON_OVERTIME
    /\ Technician(evaluated[2].technician_id).overtime_allowed
    /\ evaluated[2].fit
    /\ PriorList(evaluated[2].technician_id) # <<>>
    /\ N \in Ids(assigned_jobs)

(***************************************************************************)
(* C10.  A flexible-slot job (reaching _assign_single_job) whose           *)
(* duration_min + default_buffer_min exceeds the width of its slot window  *)
(* is not-fit with the slot-too-small reason for every candidate, and is   *)
(* failed with that reason when a capable, day-cap-eligible technician     *)
(* exists.                                                                 *)
(***************************************************************************)
SlotWidth(slot_type) ==
    IF slot_type = "MORNING" THEN 720 - WorkStart
    ELSE IF slot_type = "AFTERNOON" THEN WorkEnd - 720
    ELSE WorkEnd - WorkStart

LastIsFlexible == ~(IsTimeFixed(Last) /\ Truthy(Last.fixed_start_time))

C10_SlotTooSmall ==
    (/\ N > 0
     /\ ~PreErrored(Last)
     /\ LastIsFlexible
     /\ Last.duration_min + system_rules.default_buffer_min
            > SlotWidth(Last.slot_type))
    => /\ \A i \in 1..Len(evaluated) :
              ~evaluated[i].fit /\ evaluated[i].reason = REASON_SLOT_TOO_SMALL
       /\ EvaluatedIds = {id \in TechIds : Capable(id) /\ DayCapAllows(id)}
       /\ (\E id \in TechIds : Capable(id) /\ DayCapAllows(id))
          => FailedWith(REASON_SLOT_TOO_SMALL)

C10_Witness ==
    /\ N > 0
    /\ LastIsFlexible
    /\ Last.slot_type = "AFTERNOON"
    /\ Last.duration_min + system_rules.default_buffer_min > SlotWidth("AFTERNOON")
    /\ Len(evaluated) = 2
    /\ evaluated[1].travel_time # evaluated[2].travel_time
    /\ FailedWith(REASON_SLOT_TOO_SMALL)

(***************************************************************************)
(* C11.  A job that carries an error_reason when the loop reaches it is    *)
(* appended to failed_jobs with that same reason, no travel lookup or fit  *)
(* check is made for it, and no working state changes.                     *)
(***************************************************************************)
StepOf(job) == Len(given') = Len(given) + 1 /\ given'[Len(given')] = job

C11_ErroredSkipped ==
    [][\A job \in JobInputs(Len(jobs) + 1) :
          (StepOf(job) /\ job.error_reason # None) =>
              /\ Len(failed_jobs') = Len(failed_jobs) + 1
              /\ SubSeq(failed_jobs', 1, Len(failed_jobs)) = failed_jobs
              /\ failed_jobs'[Len(failed_jobs')].job = job.job_id
              /\ failed_jobs'[Len(failed_jobs')].status = "failed"
              /\ failed_jobs'[Len(failed_jobs')].technician_id = "FAILED"
              /\ failed_jobs'[Len(failed_jobs')].memo = job.error_reason
              /\ jobs'[Len(jobs')].error_reason = job.error_reason
              /\ evaluated' = <<>>
              /\ working_states' = working_states
              /\ UNCHANGED <<assigned_jobs, deferred_jobs>>]_vars

C11_Witness ==
    /\ N > 1
    /\ given[N].error_reason # None
    /\ N \in Ids(failed_jobs)
    /\ MemoOf(failed_jobs) = given[N].error_reason
    /\ \E id \in TechIds :
          /\ Capable(id)
          /\ DayCapAllows(id)
          /\ working_states[id].assignments_by_date # <<>>

(***************************************************************************)
(* C12.  Failures are local to one job: in the run of a list with a        *)
(* malformed job inserted at any position, every other job gets the        *)
(* classification, technician and times it got in the run without it.      *)
(***************************************************************************)
Counterpart(k) == IF k < reference.at THEN k ELSE k - 1

C12_FailuresLocal ==
    phase = "replay" =>
        \A k \in 1..Len(jobs) :
            k # reference.at => ResultOf(k) = reference.outcomes[Counterpart(k)]

C12_Witness ==
    /\ phase = "replay"
    /\ Len(jobs) = 3
    /\ reference.at = 2
    /\ ResultOf(2).class = "failed"
    /\ ResultOf(1).class = "assigned"
    /\ ResultOf(3).class = "assigned"
    /\ ResultOf(1).technician_id = ResultOf(3).technician_id
    /\ jobs[2].service_type \in Technician(ResultOf(1).technician_id).service_types
    /\ ResultOf(3) = reference.outcomes[2]

(***************************************************************************)
(* C13.  Whenever a job is assigned, the chosen technician is capable of   *)
(* its service_type, passes the day-cap rule and fits the job, and no      *)
(* other capable, day-cap-eligible, fitting technician has a strictly      *)
(* smaller travel time from their current location to the job.             *)
(***************************************************************************)
DatesHeld(id) == {e.date : e \in Entries(id)}

DayCapOk(id, date) ==
    \/ Cardinality(DatesHeld(id)) < system_rules.max_preassign_days
    \/ DatesHeld(id) = {}
    \/ date > MaxOf(DatesHeld(id))

TravelTo(id, job) == CalculateTravelTime(working_states[id].current_address, job.address)

Fits(id, job) == CheckTimeFit(working_states[id], job, TravelTo(id, job)).fit

Eligible(id, job) ==
    /\ job.service_type \in Technician(id).service_types
    /\ DayCapOk(id, job.date)
    /\ Fits(id, job)

C13_NearestFitting ==
    [][\A job \in JobInputs(Len(jobs) + 1) :
          (StepOf(job) /\ Len(assigned_jobs') = Len(assigned_jobs) + 1) =>
              LET a == assigned_jobs'[Len(assigned_jobs')]
              IN /\ a.job = job.job_id
                 /\ a.technician_id \in TechIds
                 /\ Eligible(a.technician_id, job)
                 /\ a.travel_time_minutes = TravelTo(a.technician_id, job)
                 /\ \A id \in TechIds :
                        Eligible(id, job)
                        => TravelTo(id, job) >= TravelTo(a.technician_id, job)]_vars

C13_Witness ==
    /\ N > 1
    /\ N \in Ids(assigned_jobs)
    /\ Len(evaluated) = 2
    /\ evaluated[1].fit
    /\ evaluated[2].fit
    /\ evaluated[2].travel_time < evaluated[1].travel_time
    /\ ResultOf(N).technician_id = evaluated[2].technician_id

(***************************************************************************)
(* C14.  As claimed: every job in the assigned output list has             *)
(* error_reason unset, also when a candidate rejected it.                  *)
(***************************************************************************)
C14_AssignedHaveNoReason ==
    \A i \in 1..Len(assigned_jobs) :
        jobs[assigned_jobs[i].job].error_reason = None

(***************************************************************************)
(* C15.  When candidates were evaluated and none fits, the job is failed   *)
(* with the reason of the first non-fitting candidate in evaluation order  *)
(* that returned one, or with the generic cannot-fit reason if none did.   *)
(***************************************************************************)
ReasonsGiven == SelectSeq(evaluated, LAMBDA call : ~call.fit /\ call.reason # None)

C15_FirstReasonWins ==
    (/\ N > 0
     /\ evaluated # <<>>
     /\ \A i \in 1..Len(evaluated) : ~evaluated[i].fit)
    => FailedWith(IF ReasonsGiven # <<>> THEN ReasonsGiven[1].reason
                  ELSE REASON_CANNOT_FIT)

C15_Witness ==
    /\ N > 0
    /\ Len(evaluated) = 2
    /\ ~evaluated[1].fit
    /\ ~evaluated[2].fit
    /\ evaluated[1].reason # evaluated[2].reason
    /\ FailedWith(evaluated[1].reason)

(***************************************************************************)
(* C16.  As claimed: running apply_fallbacks again on a Task it has        *)
(* completed changes nothing: fallback_used, fallback_details and every    *)
(* other field are as the first run left them.                             *)
(***************************************************************************)
C16_SecondRunNoOp ==
    (Len(history) = 2 /\ history[1].ok)
    => (history[2].ok /\ history[2].task = history[1].task)

(***************************************************************************)
(* C17.  As claimed: a job with an empty service_type, or with             *)
(* duration_min missing or <= 0 and a service type without a default       *)
(* duration, is never passed to the candidate loop or the fit check and    *)
(* ends in the failed list.  (The claim also names the recorded reason;    *)
(* the code already departs from the part stated here.)                    *)
(***************************************************************************)
Unschedulable(d) ==
    \/ Blank(d.service_type)
    \/ DurationInvalid(d.duration_min) /\ DefaultDurationByService(d.service_type) = 0

C17_UnschedulableNotEvaluated ==
    (phase = "answered" /\ Unschedulable(job_data))
    => (evaluated = <<>> /\ Ids(failed_jobs) = {1})

(***************************************************************************)
(* C18.  Every failed or deferred output Assignment carries the            *)
(* placeholder technician and is stored in no working state; every         *)
(* Assignment held in assignments_by_date has status assigned or           *)
(* time_undefined and the roster technician that owns the working state.   *)
(***************************************************************************)
Held(id) == UNION {Returned(e.list) : e \in Entries(id)}

C18_PlaceholderNeverStored ==
    /\ \A a \in Returned(failed_jobs) \cup Returned(deferred_jobs) :
           /\ a.technician_id = "FAILED"
           /\ a.status = "failed"
           /\ \A id \in TechIds : \A h \in Held(id) : h.job # a.job
    /\ \A id \in TechIds : \A h \in Held(id) :
           /\ h.status \in {"assigned", "time_undefined"}
           /\ h.technician_id = id
           /\ \E i \in 1..Len(technicians) : technicians[i].technician_id = id
    /\ "FAILED" \notin TechIds

C18_Witness ==
    /\ N = 3
    /\ deferred_jobs # <<>>
    /\ N \in Ids(failed_jobs)
    /\ evaluated # <<>>
    /\ \E id \in TechIds : Held(id) # {}

(***************************************************************************)
(* C19.  Committing an assignment appends it to the winning technician's   *)
(* list for the job's date and moves that technician to the job's          *)
(* location; last_work_end_time and last_work_date change only for a       *)
(* fixed-time job; every other working state is unchanged, and a failed    *)
(* or deferred job changes no working state.                               *)
(***************************************************************************)
Committed == Len(assigned_jobs') = Len(assigned_jobs) + 1

C19_CommitEffect ==
    [][\A job \in JobInputs(Len(jobs) + 1) :
          StepOf(job) =>
              IF Committed
              THEN LET a == assigned_jobs'[Len(assigned_jobs')]
                       w == a.technician_id
                       fixed == IsTimeFixed(job) /\ Truthy(job.fixed_start_time)
                   IN /\ a.job = job.job_id
                      /\ w \in TechIds
                      /\ GetAssignmentsForDate(working_states'[w], job.date)
                            = Append(GetAssignmentsForDate(working_states[w], job.date), a)
                      /\ \A d \in Dates \ {job.date} :
                            GetAssignmentsForDate(working_states'[w], d)
                                = GetAssignmentsForDate(working_states[w], d)
                      /\ DateKeys(working_states'[w])
                            = DateKeys(working_states[w]) \cup {job.date}
                      /\ working_states'[w].current_address = job.address
                      /\ fixed =>
                            /\ working_states'[w].last_work_end_time = a.estimated_end_time
                            /\ working_states'[w].last_work_date = job.date
                      /\ ~fixed =>
                            /\ working_states'[w].last_work_end_time
                                  = working_states[w].last_work_end_time
                            /\ working_states'[w].last_work_date
                                  = working_states[w].last_work_date
                      /\ \A id \in TechIds \ {w} :
                            working_states'[id] = working_states[id]
              ELSE /\ working_states' = working_states
                   /\ \/ Len(failed_jobs') = Len(failed_jobs) + 1
                      \/ Len(deferred_jobs') = Len(deferred_jobs) + 1]_vars

\* A flexible job committed to a technician who already holds a fixed-time
\* job of an earlier date: the list grew, the location moved, and the last
\* work end time and date are still those of the fixed-time job.
C19_Witness ==
    /\ N > 1
    /\ N \in Ids(assigned_jobs)
    /\ ~IsFixedAssignment(assigned_jobs[Len(assigned_jobs)])
    /\ LET w == assigned_jobs[Len(assigned_jobs)].technician_id
       IN /\ working_states[w].current_address = jobs[N].address
          /\ working_states[w].last_work_date # NoneDate
          /\ working_states[w].last_work_date # jobs[N].date
          /\ working_states[w].last_work_end_time # NoneTime
          /\ \E id \in TechIds \ {w} : working_states[id].assignments_by_date # <<>>

(***************************************************************************)
(* C20.  An assigned fixed-time job has status assigned, its estimated     *)
(* start is its fixed_start_time and its estimated end is the HH:MM clock  *)
(* of start + duration_min + default_buffer_min (09:00 + 120 + 30 gives    *)
(* 11:30); an assigned flexible job has status time_undefined and both     *)
(* estimated times unset.                                                  *)
(***************************************************************************)
IsHHMM(t) ==
    /\ Len(t) = 5
    /\ t[3] = ":"
    /\ \A i \in {1, 2, 4, 5} : IsDigit(t[i])

C20_EstimatedTimes ==
    \A a \in Returned(assigned_jobs) :
        LET job == given[a.job]
        IN IF IsTimeFixed(job) /\ Truthy(job.fixed_start_time)
           THEN /\ a.status = "assigned"
                /\ a.estimated_start_time = job.fixed_start_time
                /\ IsHHMM(a.estimated_end_time)
                /\ ParseClock(a.estimated_end_time).ok
                /\ ParseClock(a.estimated_end_time).minutes
                      = ParseClock(job.fixed_start_time).minutes
                        + job.duration_min + system_rules.default_buffer_min
                /\ (job.fixed_start_time = Clock0900 /\ job.duration_min = 120
                    /\ system_rules.default_buffer_min = 30)
                      => a.estimated_end_time = Clock1130
           ELSE /\ a.status = "time_undefined"
                /\ a.estimated_start_time = NoneTime
                /\ a.estimated_end_time = NoneTime

C20_Witness ==
    /\ \E a \in Returned(assigned_jobs) :
          /\ given[a.job].fixed_start_time = Clock0900
          /\ given[a.job].duration_min = 120
          /\ a.status = "assigned"
          /\ a.estimated_end_time = Clock1130
    /\ \E a \in Returned(assigned_jobs) :
          /\ given[a.job].fixed_start_time = Clock1130
          /\ given[a.job].duration_min = 400
          /\ a.status = "assigned"
    /\ \E a \in Returned(assigned_jobs) :
          /\ given[a.job].time_fixed = None
          /\ a.status = "time_undefined"

(***************************************************************************)
(* C21.  The travel-time lookup never raises and always returns: with an   *)
(* empty origin or destination it returns the sentinel 9999 without any    *)
(* request; otherwise it makes at most retry_count + 1 = 3 requests, makes *)
(* none after a 400 answer, and returns the sentinel 9999 when no request  *)
(* yielded a route.                                                        *)
(***************************************************************************)
Answers == {lookup.responses[i] : i \in 1..Len(lookup.responses)}

C21_Safe ==
    /\ lookup.pc \in {"called", "requesting", "returned"}
    /\ FailValue = 9999
    /\ RetryCount + 1 = 3
    /\ Len(lookup.responses) <= 3
    /\ (EmptyAddress(lookup.origin_address) \/ EmptyAddress(lookup.dest_address))
          => /\ lookup.responses = <<>>
             /\ lookup.pc = "returned" => lookup.result = 9999
    /\ \A i \in 1..Len(lookup.responses) :
          lookup.responses[i] = "bad_request"
              => (i = Len(lookup.responses) /\ lookup.pc = "returned")
    /\ (lookup.pc = "returned" /\ "route" \notin Answers) => lookup.result = 9999

C21_LookupTotal == []C21_Safe /\ <>(lookup.pc = "returned")

C21_Witness ==
    /\ lookup.pc = "returned"
    /\ Len(lookup.responses) = 3
    /\ Answers = {"exception", "error_status", "no_routes"}
    /\ lookup.result = 9999

(***************************************************************************)
(* C22.  A technician whose travel lookup returned the failure sentinel is *)
(* deprioritized, not excluded: for a flexible-slot job the fit of such a  *)
(* technician is decided by the slot width alone; when such a technician   *)
(* fits and no other candidate does, the job is assigned to that           *)
(* technician; and such a technician is never the winner while a fitting   *)
(* candidate has a smaller travel time.                                    *)
(***************************************************************************)
Calls == 1..Len(evaluated)

SentinelCall(i) == evaluated[i].travel_time = FailValue

WinnerOfLast ==
    (CHOOSE a \in Returned(assigned_jobs) : a.job = N).technician_id

C22_SentinelDeprioritized ==
    (N > 0 /\ evaluated # <<>>) =>
        /\ LastIsFlexible =>
              \A i \in Calls :
                  SentinelCall(i) =>
                      (evaluated[i].fit
                          <=> Last.duration_min + system_rules.default_buffer_min
                                  <= SlotWidth(Last.slot_type))
        /\ \A i \in Calls :
              (/\ SentinelCall(i)
               /\ evaluated[i].fit
               /\ \A k \in Calls \ {i} : ~evaluated[k].fit)
                  => /\ N \in Ids(assigned_jobs)
                     /\ WinnerOfLast = evaluated[i].technician_id
        /\ \A i \in Calls :
              (/\ SentinelCall(i)
               /\ N \in Ids(assigned_jobs)
               /\ WinnerOfLast = evaluated[i].technician_id)
                  => \A k \in Calls :
                        evaluated[k].fit => evaluated[k].travel_time >= FailValue

\* Two candidates were evaluated, the first does not fit, the second got the
\* sentinel from the lookup and is assigned the job.
C22_Witness ==
    /\ N > 1
    /\ Len(evaluated) = 2
    /\ ~evaluated[1].fit
    /\ evaluated[2].fit
    /\ SentinelCall(2)
    /\ N \in Ids(assigned_jobs)
    /\ WinnerOfLast = evaluated[2].technician_id

(***************************************************************************)
(* C23.  Within each of the three output lists the jobs appear in the      *)
(* relative order they have in the input list.                             *)
(***************************************************************************)
\* job_id is the position of the job in the input list.
InInputOrder(list) ==
    \A i, k \in 1..Len(list) :
        i < k => /\ list[i].job < list[k].job
                 /\ given[list[i].job].job_id = list[i].job

C23_InputOrder ==
    /\ InInputOrder(assigned_jobs)
    /\ InInputOrder(failed_jobs)
    /\ InInputOrder(deferred_jobs)

C23_Witness ==
    /\ Ids(assigned_jobs) = {1, 3}
    /\ Ids(failed_jobs) = {2}
    /\ assigned_jobs[1].job = 1
    /\ assigned_jobs[2].job = 3

(***************************************************************************)
(* C24.  As stated: a job with time_fixed = true and a missing or blank    *)
(* fixed_start_time is given the reason FIXED_TIME_MISSING at ingestion    *)
(* and ends in the failed list with that reason; it is never evaluated and *)
(* never assigned.                                                         *)
(***************************************************************************)
FixedTimeMissing(d) ==
    /\ d.time_fixed = "True"
    /\ d.fixed_start_time \in {NoneTime, <<>>, <<" ">>}

OnlyFailedWith(reason) ==
    /\ Len(failed_jobs) = 1
    /\ failed_jobs[1].job = 1
    /\ failed_jobs[1].status = "failed"
    /\ failed_jobs[1].memo = reason
    /\ jobs[1].error_reason = reason
    /\ assigned_jobs = <<>>
    /\ deferred_jobs = <<>>
    /\ evaluated = <<>>
    /\ \A id \in TechIds : working_states[id].assignments_by_date = <<>>

C24_Original ==
    (phase = "answered" /\ FixedTimeMissing(job_data))
        => /\ given[1].error_reason = REASON_FIXED_TIME_MISSING
           /\ OnlyFailedWith(REASON_FIXED_TIME_MISSING)

(***************************************************************************)
(* C24, amended.  Such a job is never evaluated and never assigned and     *)
(* ends in the failed list with the reason it was given at ingestion:      *)
(* FIXED_TIME_MISSING when its required fields are present and its date    *)
(* parses, the missing-field reason when a required field is missing, and  *)
(* otherwise the date-format reason.                                       *)
(***************************************************************************)
C24_FixedTimeMissing ==
    (phase = "answered" /\ FixedTimeMissing(job_data))
        => /\ given[1].error_reason # None
           /\ OnlyFailedWith(given[1].error_reason)
           /\ given[1].error_reason =
                 IF job_data.service_type = None \/ job_data.duration_min = NoneMinutes
                 THEN MissingReason(MissingFields(job_data))
                 ELSE IF job_data.date = MalformedDate THEN REASON_DATE_FORMAT
                 ELSE REASON_FIXED_TIME_MISSING

\* A blank start time on an otherwise schedulable fixed-time job.
C24_Witness ==
    /\ phase = "answered"
    /\ job_data.time_fixed = "True"
    /\ job_data.fixed_start_time = <<" ">>
    /\ job_data.service_type = "aircon"
    /\ job_data.duration_min = 120
    /\ job_data.date # MalformedDate
    /\ OnlyFailedWith(REASON_FIXED_TIME_MISSING)

(***************************************************************************)
(* C25.  A roster read takes its copy under the lock: the list a request   *)
(* iterates is an object of its own, taken while the request held the      *)
(* lock, and no refresh running beside the request changes it; a refresh   *)
(* replaces the stored list and sets the loaded flag together under the    *)
(* same lock, so whoever holds the lock never sees one without the other.  *)
(***************************************************************************)
C25_SnapshotUnderLock ==
    /\ roster.request.pc = "copied" => roster.lock = "request"
    /\ roster.request.pc \in {"copied", "iterating"} =>
          /\ roster.request.technicians # roster.storage
          /\ roster.request.technicians # roster.refresh.technicians
          /\ roster.heap[roster.request.technicians] = roster.request.copied
          /\ Len(roster.request.seen) <= Len(roster.request.copied)
          /\ roster.request.seen
                = SubSeq(roster.request.copied, 1, Len(roster.request.seen))
    /\ roster.refresh.pc \in {"locked", "stored", "flagged"} <=> roster.lock = "refresh"
    /\ roster.request.pc \in {"locked", "copied"} <=> roster.lock = "request"
    /\ roster.lock # "refresh" => (roster.loaded <=> roster.storage # InitialList)

\* The request is part way through its list while a refresh has since
\* replaced the stored list with a different one.
C25_Witness ==
    /\ roster.request.pc = "iterating"
    /\ roster.request.seen = <<"T1">>
    /\ roster.request.copied = <<"T1", "T2">>
    /\ roster.heap[roster.storage] = <<"T1">>
    /\ roster.refresh.runs = 2

(***************************************************************************)
(* C26.  A fixed_start_time that cannot be parsed makes the fixed-time fit *)
(* check return not-fit with the format-error reason for every technician, *)
(* whatever the overtime and conflict checks would say, and the check      *)
(* returns a result for every candidate (nothing is raised): a job that   *)
(* has candidates is failed with the format-error reason.                  *)
(***************************************************************************)
LastUnparseable == IsTimeFixed(Last) /\ Last.fixed_start_time \in UnparseableTimes

Candidates == {id \in TechIds : Capable(id) /\ DayCapAllows(id)}

C26_FormatError ==
    (N > 0 /\ LastUnparseable) =>
        /\ EvaluatedIds = Candidates
        /\ Len(evaluated) = Cardinality(Candidates)
        /\ \A i \in 1..Len(evaluated) :
              /\ ~evaluated[i].fit
              /\ evaluated[i].reason = REASON_TIME_FORMAT
              /\ evaluated[i].score = Infinity
        /\ N \notin Ids(assigned_jobs)
        /\ Candidates # {} =>
              /\ N \in Ids(failed_jobs)
              /\ MemoOf(failed_jobs) = REASON_TIME_FORMAT

\* Both technicians are asked, and each already holds a fixed-time job on
\* that date.
C26_Witness ==
    /\ N = 3
    /\ LastUnparseable
    /\ Len(evaluated) = 2
    /\ PriorList(evaluated[1].technician_id) # <<>>
    /\ PriorList(evaluated[2].technician_id) # <<>>
    /\ MemoOf(failed_jobs) = REASON_TIME_FORMAT

(***************************************************************************)
(* C27.  assignments_by_date only grows: no step removes or reorders a     *)
(* date key or an entry of a date's list, a committed Assignment           *)
(* (technician, status, estimated times) is never changed by a later job,  *)
(* and every date's list is in commit order, which is the input order of   *)
(* the committed jobs.                                                     *)
(***************************************************************************)
IsPrefix(s, t) == Len(s) <= Len(t) /\ SubSeq(t, 1, Len(s)) = s

OnlyGrows ==
    \A id \in TechIds :
        LET old == working_states[id].assignments_by_date
            new == working_states'[id].assignments_by_date
        IN /\ Len(old) <= Len(new)
           /\ \A i \in 1..Len(old) :
                 /\ new[i].date = old[i].date
                 /\ IsPrefix(old[i].list, new[i].list)

InCommitOrder ==
    \A id \in TechIds : \A e \in Entries(id) :
        \A i, k \in 1..Len(e.list) : i < k => e.list[i].job < e.list[k].job

C27_OnlyGrows == [][OnlyGrows]_vars /\ []InCommitOrder

\* One technician holds jobs 1 and 3 on one date, in that order, the first
\* as it was committed; job 2 went to the other technician.
C27_Witness ==
    \E id \in TechIds :
        /\ Len(working_states[id].assignments_by_date) = 1
        /\ Len(working_states[id].assignments_by_date[1].list) = 2
        /\ working_states[id].assignments_by_date[1].list[1] = assigned_jobs[1]
        /\ working_states[id].assignments_by_date[1].list[2].job = 3
        /\ \E other \in TechIds \ {id} : 2 \in {h.job : h \in Held(other)}

(***************************************************************************)
(* C28.  The insufficient-travel rejection of a fixed-time job comes only  *)
(* from the same-date assignment that produced the technician's current    *)
(* location: a candidate rejects with that reason only when its last       *)
(* committed assignment is on the job's date, has an end time, and that    *)
(* end + travel time > the job's start.                                    *)
(***************************************************************************)
PriorHeld(id) == {h \in Held(id) : h.job # N}

\* The assignment committed last to the technician: _update_working_state
\* set current_address to its job's address.
Producer(id) == CHOOSE h \in PriorHeld(id) : \A g \in PriorHeld(id) : g.job <= h.job

ProducerRejects(id, travel_time) ==
    /\ PriorHeld(id) # {}
    /\ jobs[Producer(id).job].date = Last.date
    /\ Truthy(Producer(id).estimated_end_time)
    /\ ParseClock(Producer(id).estimated_end_time).minutes + travel_time > LastStart

C28_TravelFromCurrentLocationOnly ==
    (N > 0 /\ LastIsFixed) =>
        \A i \in Calls :
            evaluated[i].reason = REASON_TRAVEL_SHORT
                => ProducerRejects(evaluated[i].technician_id, evaluated[i].travel_time)

(***************************************************************************)
(* C29.  Fixed-time intervals are half-open: an existing fixed-time        *)
(* assignment whose end equals the job's start, or whose start equals the  *)
(* job's end, does not make the technician reject the job with the         *)
(* time-conflict reason; a technician rejects with that reason only when   *)
(* one of its same-date fixed-time assignments has start < the job's end   *)
(* and end > the job's start.                                              *)
(***************************************************************************)
Touches(a) ==
    IsFixedAssignment(a) /\ (EndOf(a) = LastStart \/ StartOf(a) = LastEnd)

C29_HalfOpen ==
    (N > 0 /\ LastIsFixed) =>
        \A i \in Calls :
            LET prior == PriorList(evaluated[i].technician_id)
            IN /\ evaluated[i].reason = REASON_TIME_CONFLICT
                     => \E k \in 1..Len(prior) :
                           /\ IsFixedAssignment(prior[k])
                           /\ StartOf(prior[k]) < LastEnd
                           /\ LastStart < EndOf(prior[k])
               /\ (\A k \in 1..Len(prior) :
                       IsFixedAssignment(prior[k]) => Touches(prior[k]))
                     => evaluated[i].reason # REASON_TIME_CONFLICT

\* The job starts at the minute an assignment of the winning technician
\* ends, at the same address, and is committed to that technician.
C29_Witness ==
    /\ N > 1
    /\ LastIsFixed
    /\ N \in Ids(assigned_jobs)
    /\ \E k \in 1..Len(PriorList(WinnerOfLast)) :
          /\ IsFixedAssignment(PriorList(WinnerOfLast)[k])
          /\ EndOf(PriorList(WinnerOfLast)[k]) = LastStart

(***************************************************************************)
(* C30.  The fit of a flexible-slot job does not depend on what the        *)
(* technician already holds on the date: every candidate that is asked     *)
(* fits exactly when duration_min + default_buffer_min is within the slot  *)
(* width, so flexible jobs pile up on one technician and date, beside      *)
(* fixed-time ones, as long as the day-cap rule admits the date.           *)
(***************************************************************************)
C30_FlexibleIgnoresExisting ==
    (N > 0 /\ LastIsFlexible /\ ~PreErrored(Last)) =>
        /\ EvaluatedIds = Candidates
        /\ \A i \in Calls :
              /\ evaluated[i].fit
                    <=> Last.duration_min + system_rules.default_buffer_min
                            <= SlotWidth(Last.slot_type)
              /\ evaluated[i].fit => evaluated[i].score = evaluated[i].travel_time
        /\ (/\ Candidates # {}
            /\ Last.duration_min + system_rules.default_buffer_min
                   <= SlotWidth(Last.slot_type))
              => N \in Ids(assigned_jobs)

\* One technician holds, on one date, a fixed-time job at 09:00 and two
\* MORNING jobs of 120 minutes: 450 minutes of work in a morning of 180.
C30_Witness ==
    /\ N = 3
    /\ \E id \in TechIds :
          /\ {h.job : h \in Held(id)} = {1, 2, 3}
          /\ Len(working_states[id].assignments_by_date) = 1
    /\ jobs[1].fixed_start_time = Clock0900
    /\ jobs[2].slot_type = "MORNING"
    /\ jobs[3].slot_type = "MORNING"
    /\ Len(evaluated) = 2

(***************************************************************************)
(* C31.  As claimed: a job that one pass returned as deferred and that is  *)
(* passed to assign_jobs again is evaluated like any other job; the second *)
(* pass never puts it on the failed list with the deferral reason as its   *)
(* memo and without a fit check.                                           *)
(***************************************************************************)
C31_DeferredIsEvaluatedAgain ==
    phase \in SecondPass =>
        \A i \in 1..Len(failed_jobs) : failed_jobs[i].memo # REASON_MAX_DAYS

(***************************************************************************)
(* C32.  As claimed: every call of the resolver that answers "not          *)
(* schedulable" leaves the job with error_reason service_type_missing or   *)
(* duration_missing.                                                       *)
(***************************************************************************)
C32_TerminalSetsErrorReason ==
    \A i \in 1..Len(history) :
        ~history[i].ok =>
            history[i].task.error_reason \in
                {"service_type_missing", "duration_missing"}

\* The defaults one call applies to the task it is given.
DurationDefaulted(t) == DurationInvalid(t.duration_minutes)
LocationDefaulted(t, worker_state) ==
    Blank(t.current_location) /\ worker_state.present
SlotDefaulted(t) == Blank(t.slot_type)
OvertimeDefaulted(t) == t.overtime_allowed = None
Count(applied) == IF applied THEN 1 ELSE 0
DefaultsApplied(t, worker_state) ==
    Count(DurationDefaulted(t)) + Count(LocationDefaulted(t, worker_state))
    + Count(SlotDefaulted(t)) + Count(OvertimeDefaulted(t))

Defaulted(before, worker_state, after) ==
    /\ after.service_type = before.service_type
    /\ after.duration_minutes =
          IF DurationDefaulted(before)
          THEN (IF before.service_type = "aircon" THEN 120 ELSE 180)
          ELSE before.duration_minutes
    /\ after.slot_type =
          IF SlotDefaulted(before) THEN "ALLDAY" ELSE before.slot_type
    /\ after.overtime_allowed =
          IF ~OvertimeDefaulted(before) THEN before.overtime_allowed
          ELSE IF worker_state.present /\ worker_state.overtime_enabled THEN "True"
          ELSE "False"
    /\ ~Blank(before.current_location)
          => after.current_location = before.current_location
    /\ before.fixed_start_time \notin {None, ""}
          => after.fixed_start_time = before.fixed_start_time
    /\ after.fallback_used = (DefaultsApplied(before, worker_state) > 0)
    /\ Len(after.fallback_details) = DefaultsApplied(before, worker_state)

(***************************************************************************)
(* C33.  Every call of apply_fallbacks on a task with a non-empty service  *)
(* type that it reports schedulable replaces an invalid duration by the    *)
(* table value, a blank slot_type by ALLDAY and an unset overtime_allowed   *)
(* by the worker's flag (false without a worker); fallback_used is set     *)
(* exactly when a default was applied, the record of the call holds one    *)
(* entry per applied default, and the fields that were present keep their  *)
(* values.                                                                 *)
(***************************************************************************)
C33_DefaultsApplied ==
    [][\A worker_state \in WorkerStateInputs :
          (/\ history' = Append(history, ApplyFallbacks(task, worker_state))
           /\ ~Blank(task.service_type)
           /\ ApplyFallbacks(task, worker_state).ok)
          => Defaulted(task, worker_state, task')]_vars

C33_Witness ==
    /\ Len(history) = 1
    /\ history[1].ok
    /\ task.duration_minutes = 120
    /\ task.slot_type = "ALLDAY"
    /\ task.overtime_allowed = "True"
    /\ task.fixed_start_time = "09:00"
    /\ task.fallback_used
    /\ Len(task.fallback_details) = 4

\* The snapshots given for a technician, by position in technician_states.
SnapshotsOf(technician) ==
    {i \in 1..Len(technician_states) :
        technician_states[i].technician_id = technician.technician_id}

\* state_dict keeps the last snapshot given for an id.
SnapshotOf(technician) ==
    technician_states[CHOOSE i \in SnapshotsOf(technician) :
                         \A k \in SnapshotsOf(technician) : k <= i]

HasLastAddress(technician) ==
    /\ SnapshotsOf(technician) # {}
    /\ SnapshotOf(technician).last_address \notin {None, ""}

(***************************************************************************)
(* C34.  Construction gives every technician of the roster a working       *)
(* state with no assignments, located at the snapshot's last_address when  *)
(* a TechnicianState with a non-empty one exists for the technician and at *)
(* the home address otherwise; a TechnicianState for an id outside the     *)
(* roster creates no working state.                                        *)
(***************************************************************************)
C34_SeededFromSnapshot ==
    /\ DOMAIN working_states \subseteq
          {technicians[i].technician_id : i \in 1..Len(technicians)}
    /\ \A i \in 1..Len(technicians) :
          technicians[i].technician_id \in DOMAIN working_states =>
              LET ws == working_states[technicians[i].technician_id]
              IN /\ ws.current_address =
                       IF HasLastAddress(technicians[i])
                       THEN SnapshotOf(technicians[i]).last_address
                       ELSE technicians[i].home_address
                 /\ ws.assignments_by_date = <<>>
    /\ phase = "constructed" =>
          \A i \in 1..Len(technicians) :
              technicians[i].technician_id \in DOMAIN working_states

C34_Witness ==
    /\ phase = "constructed"
    /\ Len(technician_states) = 2
    /\ technician_states[1].technician_id = "T9"
    /\ HasLastAddress(technicians[1])
    /\ working_states[technicians[1].technician_id].current_address = "A"
    /\ working_states[technicians[2].technician_id].current_address = "H2"
    /\ "T9" \notin DOMAIN working_states

\* The estimated end an assignment carries, in minutes.
EstimatedEnd(a) == ParseClock(a.estimated_end_time).minutes

\* The fixed-time assignments the technician held on the last job's date
\* before the last job, that end after the last job starts.
EndingAfterLastStart(id) ==
    {k \in 1..Len(PriorList(id)) :
        /\ IsFixedAssignment(PriorList(id)[k])
        /\ LastStart < EstimatedEnd(PriorList(id)[k])}

EvaluatedBy(overtime_allowed) ==
    {i \in 1..Len(evaluated) :
        Technician(evaluated[i].technician_id).overtime_allowed = overtime_allowed}

NoOvertimeReason ==
    /\ \A i \in 1..Len(evaluated) : evaluated[i].reason # REASON_OVERTIME
    /\ \A i \in EvaluatedBy(FALSE) : \A k \in EvaluatedBy(TRUE) :
          evaluated[i].fit = evaluated[k].fit

LastSlot == IF Last.slot_type = None THEN "ALLDAY" ELSE Last.slot_type

\* A MORNING window that ends (at noon) after work_end.
MorningPastWorkEnd == LastSlot = "MORNING" /\ WorkEnd < 720

(***************************************************************************)
(* C36, as claimed: for every slot type, duration and working hours the    *)
(* flexible fit check never answers OVERTIME_NOT_ALLOWED, and technicians  *)
(* with and without overtime get the same fit result.                      *)
(***************************************************************************)
C36_Original == (N > 0 /\ LastIsFlexible) => NoOvertimeReason

(***************************************************************************)
(* C36, amended: that holds unless the slot is MORNING and work_end is     *)
(* before 12:00; then a job that fits the slot width is rejected with      *)
(* OVERTIME_NOT_ALLOWED for every technician without overtime and accepted *)
(* for every technician with overtime.                                     *)
(***************************************************************************)
C36_FlexibleOvertime ==
    (N > 0 /\ LastIsFlexible) =>
        IF MorningPastWorkEnd
              /\ Last.duration_min + system_rules.default_buffer_min
                    <= SlotWidth("MORNING")
        THEN /\ \A i \in EvaluatedBy(FALSE) :
                   ~evaluated[i].fit /\ evaluated[i].reason = REASON_OVERTIME
             /\ \A i \in EvaluatedBy(TRUE) : evaluated[i].fit
        ELSE NoOvertimeReason

C36_Witness ==
    /\ N > 0
    /\ LastIsFlexible
    /\ ~MorningPastWorkEnd
    /\ WorkEnd = 720
    /\ LastSlot = "MORNING"
    /\ \E i \in EvaluatedBy(FALSE) : \E k \in EvaluatedBy(TRUE) :
          evaluated[i].fit /\ evaluated[k].fit

C36_WitnessPastWorkEnd ==
    /\ N > 0
    /\ MorningPastWorkEnd
    /\ \E i \in EvaluatedBy(FALSE) : evaluated[i].reason = REASON_OVERTIME
    /\ \E k \in EvaluatedBy(TRUE) : evaluated[k].fit

\* The fitting calls of the last job with the least score.
BestCalls ==
    {i \in 1..Len(evaluated) :
        /\ evaluated[i].fit
        /\ \A k \in 1..Len(evaluated) :
              evaluated[k].fit => evaluated[i].score <= evaluated[k].score}

RosterPosition(id) == CHOOSE i \in 1..Len(technicians) : technicians[i].technician_id = id

\* The calls of the last job were made in roster order.
InRosterOrder ==
    \A i, k \in 1..Len(evaluated) :
        i < k => RosterPosition(evaluated[i].technician_id)
                    < RosterPosition(evaluated[k].technician_id)

(***************************************************************************)
(* C37.  Among the fitting candidates with the least travel time the one   *)
(* that comes first in roster order is chosen, and a second run of         *)
(* assign_jobs on an equal list from an equal initial state returns the    *)
(* same assigned, failed and deferred lists as the first.                  *)
(***************************************************************************)
C37_Deterministic ==
    /\ (N > 0 /\ N \in Ids(assigned_jobs)) =>
          /\ InRosterOrder
          /\ \A i \in BestCalls :
                RosterPosition(WinnerOfLast)
                    <= RosterPosition(evaluated[i].technician_id)
          /\ \E i \in BestCalls : evaluated[i].technician_id = WinnerOfLast
    /\ phase = "replay" =>
          /\ IsPrefix(assigned_jobs, reference.outcomes.assigned_jobs)
          /\ IsPrefix(failed_jobs, reference.outcomes.failed_jobs)
          /\ IsPrefix(deferred_jobs, reference.outcomes.deferred_jobs)
          /\ Len(jobs) = Len(reference.script) =>
                /\ assigned_jobs = reference.outcomes.assigned_jobs
                /\ failed_jobs = reference.outcomes.failed_jobs
                /\ deferred_jobs = reference.outcomes.deferred_jobs

C37_Witness ==
    /\ phase = "replay"
    /\ Len(jobs) = Len(reference.script)
    /\ N \in Ids(assigned_jobs)
    /\ Cardinality(BestCalls) = 2
    /\ WinnerOfLast = technicians[1].technician_id
    /\ Len(assigned_jobs) = 2

\* The places of the working states: technician, date entry, list position.
Places ==
    {<<id, i, k>> \in TechIds \X (1..MaxDate) \X (1..MaxJobs) :
        /\ i <= Len(working_states[id].assignments_by_date)
        /\ k <= Len(working_states[id].assignments_by_date[i].list)}

StoredAt(p) == working_states[p[1]].assignments_by_date[p[2]].list[p[3]]

KeyAt(p) == working_states[p[1]].assignments_by_date[p[2]].date

\* The job committed last to the technician.
LastCommitted(id) ==
    CHOOSE h \in Held(id) : \A g \in Held(id) : g.job <= h.job

(***************************************************************************)
(* C38.  The assignments held in the working states are exactly those of   *)
(* the assigned list: each one is stored once, by the technician its       *)
(* Assignment names and under its job's date, and nothing else is stored;  *)
(* a technician is at the address of the job committed to them last, or at *)
(* the seed location when they hold none.                                  *)
(***************************************************************************)
C38_StoredOneToOne ==
    /\ \A a \in Returned(assigned_jobs) :
          /\ Cardinality({p \in Places : StoredAt(p).job = a.job}) = 1
          /\ \A p \in Places :
                StoredAt(p).job = a.job =>
                    /\ StoredAt(p) = a
                    /\ p[1] = a.technician_id
                    /\ KeyAt(p) = jobs[a.job].date
    /\ Cardinality(Places) = Len(assigned_jobs)
    /\ \A id \in TechIds :
          working_states[id].current_address =
              IF Held(id) = {} THEN Technician(id).home_address
              ELSE jobs[LastCommitted(id).job].address

C38_Witness ==
    /\ Len(assigned_jobs) = 3
    /\ \E id \in TechIds :
          /\ Len(working_states[id].assignments_by_date) = 2
          /\ Cardinality(Held(id)) = 2
          /\ working_states[id].current_address # Technician(id).home_address
    /\ \E id \in TechIds : Cardinality(Held(id)) = 1

\* The slots recorded for a technician, and the band of the work of a result.
Slots(id) == engine.tech_schedules[id]

BandOf(i) == GetTimeBandRange(engine.works[i].time_band)

(***************************************************************************)
(* C39.  As claimed: the slots recorded for one technician never overlap,  *)
(* and every ASSIGNED result lies inside the range of its work's           *)
(* time_band.                                                              *)
(***************************************************************************)
C39_SlotsInsideBand ==
    /\ \A id \in DOMAIN engine.tech_schedules :
          \A i, k \in 1..Len(Slots(id)) :
              i < k => Slots(id)[i].end_min <= Slots(id)[k].start_min
    /\ \A i \in 1..Len(engine.results) :
          engine.results[i].assign_status = "ASSIGNED" =>
              /\ BandOf(i)[1] <= TimeToMinutes(engine.results[i].start_time)
              /\ TimeToMinutes(engine.results[i].end_time) <= BandOf(i)[2]

====
